---- MODULE Spec2Model ----
(***************************************************************************)
(* Stock ledger and allocation engine of the AlleFarma back office:        *)
(* batches (Lote) per medication, AdicionarEstoqueUseCase,                 *)
(* RemoverEstoqueUseCase, EstoqueServiceMemory, over the in-memory and the *)
(* PostgreSQL batch repositories.                                          *)
(*                                                                         *)
(* Dates are day numbers; `hoje` is date.today().  The ledger `lotes` is   *)
(* the repository's store in insertion order (dict _lotes / table lotes);  *)
(* ids are handed out 1, 2, ... and nothing is deleted, so the batch with  *)
(* id i sits at position i.                                                *)
(***************************************************************************)
EXTENDS Integers, Sequences, FiniteSets, TLC

\* ---------------------------------------------------------------- bounds
MaxLotes == 2        \* batches the ledger may hold
MaxQtd == 3          \* largest quantity received by one AddStock
MaxDia == 3          \* last day the clock reaches
MaxPedido == 3       \* largest quantity asked of RemoveStock
MaxHorizonte == 2    \* largest number of days a scan looks ahead

\* ------------------------------------------------------------ input sets
IdsMedicamento == {1, 2, 3}                 \* 3 is never registered
DataInvalida == 0 - 1                        \* a string strptime rejects
DiaFuturo == MaxDia + 1                      \* a day the clock never reaches
Repositorios == {"memory", "postgres"}

Entrega(nl, df, dv, f) ==
  [numero_lote |-> nl, data_fabricacao |-> df, data_validade |-> dv, fornecedor |-> f]

\* what a delivery note may say: lot number, manufacture date, expiry date,
\* supplier.  These can be stored on day 1
EntregasEmOrdem ==
  { Entrega("L-1", 0, DiaFuturo, "Acme"),
    Entrega("L-2", 1, 3, "Acme"),
    Entrega("L-1", 1, 2, "Acme") }

\* and each of the others breaks one rule
Entregas ==
  EntregasEmOrdem \cup {
    Entrega("L-2", DataInvalida, 3, "Acme"),
    Entrega("L-2", 1, DataInvalida, "Acme"),
    Entrega("L-2", 1, 1, "Acme"),
    Entrega("L-2", 0, 1, "Acme"),
    Entrega("L-2", DiaFuturo, DiaFuturo + 1, "Acme"),
    Entrega("L", 0, DiaFuturo, "Acme"),
    Entrega("L-2", 0, DiaFuturo, "A") }

\* len() of the strings above
Tamanho(s) == IF s \in {"L", "A"} THEN 1 ELSE 3

VARIABLES repo,          \* which LoteRepositoryPort implementation is wired
          hoje,          \* date.today()
          medicamentos,  \* catalog: id -> [estoque_minimo]
          lotes,         \* the batch ledger
          res,           \* outcome of the last call made today
          proc,          \* the requests being served, one per worker thread
          observers,     \* EventDispatcher._observers: event kind -> observers
          consulta       \* outcome of the last query, scan or dispatch

vars == <<repo, hoje, medicamentos, lotes, res, proc, observers, consulta>>

Min(a, b) == IF a < b THEN a ELSE b

\* ------------------------------------------------------------ Lote entity

\* Lote.__post_init__: the first validation that raises, or "ok"
ValidarLote(l, hj) ==
  IF Tamanho(l.numero_lote) < 3 THEN "numero_lote"
  ELSE IF l.quantidade <= 0 THEN "quantidade_lote"
  ELSE IF l.data_fabricacao > hj THEN "fabricacao_futura"
  ELSE IF l.data_validade <= l.data_fabricacao THEN "validade_fabricacao"
  ELSE IF l.data_validade <= hj THEN "lote_vencido"
  ELSE IF Tamanho(l.fornecedor) < 3 THEN "fornecedor"
  ELSE "ok"

\* Lote.esta_vencido
EstaVencido(l, hj) == hj > l.data_validade

\* sum(lote.quantidade for lote in s)
RECURSIVE SomaQuantidade(_)
SomaQuantidade(s) ==
  IF s = <<>> THEN 0 ELSE Head(s).quantidade + SomaQuantidade(Tail(s))

\* list.sort(key=lambda x: x[campo]): stable, ascending
RECURSIVE InserirOrdenado(_, _, _)
InserirOrdenado(s, x, campo) ==
  IF s = <<>> THEN <<x>>
  ELSE IF x[campo] < Head(s)[campo] THEN <<x>> \o s
  ELSE <<Head(s)>> \o InserirOrdenado(Tail(s), x, campo)

RECURSIVE OrdenarPor(_, _)
OrdenarPor(s, campo) ==
  IF s = <<>> THEN <<>>
  ELSE InserirOrdenado(OrdenarPor(SubSeq(s, 1, Len(s) - 1), campo),
                       s[Len(s)], campo)

\* ------------------------------------------------------ batch repository

\* first element of s that _modelo_para_entidade cannot rebuild, or "ok"
RECURSIVE PrimeiroErro(_, _)
PrimeiroErro(s, hj) ==
  IF s = <<>> THEN "ok"
  ELSE IF ValidarLote(Head(s), hj) # "ok" THEN ValidarLote(Head(s), hj)
  ELSE PrimeiroErro(Tail(s), hj)

\* LoteRepositoryPostgres._modelo_para_entidade: Lote(...) runs __post_init__
ModeloParaEntidade(modelo, hj) == ValidarLote(modelo, hj)

\* a buscar_por_medicamento that does not look at medicamento_id
BuscarPorMedicamento_Todos(led, m, hj, rp) ==
  IF rp = "postgres" /\ PrimeiroErro(led, hj) # "ok"
  THEN [err |-> PrimeiroErro(led, hj), lotes |-> <<>>]
  ELSE [err |-> "ok", lotes |-> led]

\* buscar_por_medicamento: the memory repository hands out its own objects,
\* the PostgreSQL one rebuilds an entity from every row
BuscarPorMedicamento(led, m, hj, rp) ==
  LET doMed == SelectSeq(led, LAMBDA l : l.medicamento_id = m)
  IN IF rp = "postgres" /\ PrimeiroErro(doMed, hj) # "ok"
     THEN [err |-> PrimeiroErro(doMed, hj), lotes |-> <<>>]
     ELSE [err |-> "ok", lotes |-> doMed]

\* a salvar that adds the units to a batch already holding the lot number
Salvar_Fundir(led, lote, rp) ==
  IF \E i \in 1 .. Len(led) : led[i].numero_lote = lote.numero_lote
  THEN LET i == CHOOSE k \in 1 .. Len(led) : led[k].numero_lote = lote.numero_lote
       IN [err |-> "ok",
           lotes |-> [led EXCEPT ![i].quantidade = @ + lote.quantidade],
           id |-> i]
  ELSE [err |-> "ok",
        lotes |-> Append(led, [lote EXCEPT !.id = Len(led) + 1]),
        id |-> Len(led) + 1]

\* salvar: the memory repository stores under the next id; the PostgreSQL
\* table has numero_lote UNIQUE, so a repeated lot number fails the commit
Salvar(led, lote, rp) ==
  IF rp = "postgres" /\ \E i \in 1 .. Len(led) : led[i].numero_lote = lote.numero_lote
  THEN [err |-> "integridade", lotes |-> led, id |-> 0]
  ELSE [err |-> "ok",
        lotes |-> Append(led, [lote EXCEPT !.id = Len(led) + 1]),
        id |-> Len(led) + 1]

\* ------------------------------------------------------------- outcomes
SemResultado ==
  [op |-> "nenhuma", medicamento_id |-> 0, quantidade |-> 0, err |-> "ok",
   antes |-> <<>>, depois |-> <<>>, salvou |-> FALSE, lotes_afetados |-> <<>>,
   estoque_atual |-> 0, status |-> "", disponivel |-> 0, lote_id |-> 0,
   lotes_lidos |-> <<>>, entrega |-> Entrega("", 0, 0, ""),
   movimentacoes |-> <<>>]

\* LoteRepository.atualizar(lote): the memory repository stores the object it
\* is given; the PostgreSQL one copies the fields into the row, commits, and
\* only then rebuilds the entity it returns
Atualizar(led, lote, rp, hj) ==
  IF lote.id \notin 1 .. Len(led)
  THEN [err |-> "lote_nao_encontrado", lotes |-> led]
  ELSE [err |-> IF rp = "postgres" THEN ModeloParaEntidade(lote, hj) ELSE "ok",
        lotes |-> [led EXCEPT ![lote.id] = lote]]

\* an entity obtained from the memory repository IS the stored object, so
\* assigning to its field changes the ledger; a PostgreSQL entity is a copy
MutarEntidade(led, lote, rp) ==
  IF rp = "memory" THEN [led EXCEPT ![lote.id] = lote] ELSE led

\* the value a read of lote.quantidade yields for an entity read earlier
QuantidadeDe(led, l, rp) ==
  IF rp = "memory" THEN led[l.id].quantidade ELSE l.quantidade

\* ----------------------------------------------- RemoverEstoqueUseCase

\* the eligible batches in the order of EstoqueServiceMemory.registrar_saida
LotesDisponiveis_PorFabricacao(ls, hj) ==
  OrdenarPor(SelectSeq(ls, LAMBDA l : l.quantidade > 0 /\ l.data_validade > hj),
             "data_fabricacao")

\* lines 83-89: eligible batches, soonest expiry first
LotesDisponiveis(ls, hj) ==
  OrdenarPor(SelectSeq(ls, LAMBDA l : l.quantidade > 0 /\ l.data_validade > hj),
             "data_validade")

\* the loop body without min(): the whole remainder is taken from batch l
AlocarLote_SemMin(st, l, rp, hj) ==
  IF st.err # "ok" \/ st.restante = 0 THEN st
  ELSE LET atual == QuantidadeDe(st.lotes, l, rp)
           quantidade_remover == st.restante
           entidade == [l EXCEPT !.quantidade = atual - quantidade_remover]
           at == Atualizar(MutarEntidade(st.lotes, entidade, rp), entidade, rp, hj)
       IN IF at.err # "ok"
          THEN [st EXCEPT !.err = at.err, !.lotes = at.lotes]
          ELSE [err |-> "ok",
                lotes |-> at.lotes,
                restante |-> st.restante - quantidade_remover,
                afetados |-> Append(st.afetados,
                   [lote_id |-> l.id, numero_lote |-> l.numero_lote,
                    quantidade_removida |-> quantidade_remover,
                    quantidade_restante |-> entidade.quantidade])]

\* lines 105-124, one pass of the loop body over batch l
AlocarLote(st, l, rp, hj) ==
  IF st.err # "ok" \/ st.restante = 0 THEN st
  ELSE LET atual == QuantidadeDe(st.lotes, l, rp)
           quantidade_remover == Min(st.restante, atual)
           entidade == [l EXCEPT !.quantidade = atual - quantidade_remover]
           at == Atualizar(MutarEntidade(st.lotes, entidade, rp), entidade, rp, hj)
       IN IF at.err # "ok"
          THEN [st EXCEPT !.err = at.err, !.lotes = at.lotes]
          ELSE [err |-> "ok",
                lotes |-> at.lotes,
                restante |-> st.restante - quantidade_remover,
                afetados |-> Append(st.afetados,
                   [lote_id |-> l.id, numero_lote |-> l.numero_lote,
                    quantidade_removida |-> quantidade_remover,
                    quantidade_restante |-> entidade.quantidade])]

\* lines 101-124: the whole loop
RECURSIVE AlocarLotes(_, _, _, _)
AlocarLotes(st, disp, rp, hj) ==
  IF disp = <<>> THEN st
  ELSE AlocarLotes(AlocarLote(st, Head(disp), rp, hj), Tail(disp), rp, hj)

\* the closing sum without its expiry filter, as AdicionarEstoqueUseCase has it
EstoqueNaoVencido_Total(ls, hj) == SomaQuantidade(ls)

\* lines 128-131: quantity in batches that have not expired
EstoqueNaoVencido(ls, hj) ==
  SomaQuantidade(SelectSeq(ls, LAMBDA l : l.data_validade > hj))

\* lines 134-142
StatusRemocao(estoque_total, minimo) ==
  IF estoque_total = 0 THEN "CRITICO"
  ELSE IF estoque_total < minimo THEN "ATENCAO"
  ELSE "OK"

Falha(op, m, q, led, erro, ledDepois) ==
  [SemResultado EXCEPT !.op = op, !.medicamento_id = m, !.quantidade = q,
                       !.err = erro, !.antes = led, !.depois = ledDepois]

\* lines 126-156, after the loop st
RemoverFinal(led, meds, hj, rp, m, q, disponivel, st) ==
  IF st.err # "ok"
  THEN [Falha("remover", m, q, led, st.err, st.lotes) EXCEPT !.disponivel = disponivel]
  ELSE LET todos == BuscarPorMedicamento(st.lotes, m, hj, rp)
       IN IF todos.err # "ok"
          THEN Falha("remover", m, q, led, todos.err, st.lotes)
          ELSE [op |-> "remover", medicamento_id |-> m, quantidade |-> q,
                err |-> "ok", antes |-> led, depois |-> st.lotes, salvou |-> FALSE,
                lotes_afetados |-> st.afetados,
                estoque_atual |-> EstoqueNaoVencido(todos.lotes, hj),
                status |-> StatusRemocao(EstoqueNaoVencido(todos.lotes, hj),
                                         meds[m].estoque_minimo),
                disponivel |-> disponivel, lote_id |-> 0, lotes_lidos |-> <<>>,
                entrega |-> SemResultado.entrega, movimentacoes |-> <<>>]

\* RemoverEstoqueUseCase.execute
RemoverEstoqueExecute(led, meds, hj, rp, m, q) ==
  IF q <= 0 THEN Falha("remover", m, q, led, "quantidade", led)
  ELSE IF m \notin DOMAIN meds THEN Falha("remover", m, q, led, "nao_encontrado", led)
  ELSE LET lidos == BuscarPorMedicamento(led, m, hj, rp)
           disp == LotesDisponiveis(lidos.lotes, hj)
           estoque_disponivel == SomaQuantidade(disp)
       IN IF lidos.err # "ok" THEN Falha("remover", m, q, led, lidos.err, led)
          ELSE IF estoque_disponivel < q
          THEN [Falha("remover", m, q, led, "insuficiente", led)
                  EXCEPT !.disponivel = estoque_disponivel]
          ELSE RemoverFinal(led, meds, hj, rp, m, q, estoque_disponivel,
                 AlocarLotes([err |-> "ok", lotes |-> led, restante |-> q,
                              afetados |-> <<>>], disp, rp, hj))

\* --------------------------------------------- AdicionarEstoqueUseCase

\* lines 113-119
StatusAdicao(estoque_total, minimo) ==
  IF estoque_total < minimo THEN "ATENCAO" ELSE "OK"

\* lines 106-134: salvar, then re-read and report
AdicionarSalvar(led, meds, hj, rp, m, q, lote) ==
  LET sv == Salvar(led, lote, rp)
      todos == BuscarPorMedicamento(sv.lotes, m, hj, rp)
  IN IF sv.err # "ok"
     THEN [Falha("adicionar", m, q, led, sv.err, led) EXCEPT !.salvou = TRUE]
     ELSE IF todos.err # "ok"
     THEN [Falha("adicionar", m, q, led, todos.err, sv.lotes) EXCEPT !.salvou = TRUE]
     ELSE [op |-> "adicionar", medicamento_id |-> m, quantidade |-> q,
           err |-> "ok", antes |-> led, depois |-> sv.lotes, salvou |-> TRUE,
           lotes_afetados |-> <<>>,
           estoque_atual |-> SomaQuantidade(todos.lotes),
           status |-> StatusAdicao(SomaQuantidade(todos.lotes), meds[m].estoque_minimo),
           disponivel |-> 0, lote_id |-> sv.id, lotes_lidos |-> <<>>,
           entrega |-> SemResultado.entrega, movimentacoes |-> <<>>]

\* an execute that looks the medication up only after salvar
AdicionarEstoqueExecute_SalvaAntes(led, meds, hj, rp, m, q, numero_lote, data_fabricacao, data_validade, fornecedor) ==
  LET lote == [id |-> 0, numero_lote |-> numero_lote, medicamento_id |-> m,
               quantidade |-> q, data_fabricacao |-> data_fabricacao,
               data_validade |-> data_validade, fornecedor |-> fornecedor]
  IN IF q <= 0 THEN Falha("adicionar", m, q, led, "quantidade", led)
     ELSE IF data_fabricacao = DataInvalida \/ data_validade = DataInvalida
     THEN Falha("adicionar", m, q, led, "formato_data", led)
     ELSE IF data_validade <= data_fabricacao
     THEN Falha("adicionar", m, q, led, "validade_fabricacao", led)
     ELSE IF data_validade <= hj
     THEN Falha("adicionar", m, q, led, "validade_futura", led)
     ELSE IF ValidarLote(lote, hj) # "ok"
     THEN Falha("adicionar", m, q, led, ValidarLote(lote, hj), led)
     ELSE IF m \notin DOMAIN meds
     THEN [Falha("adicionar", m, q, led, "nao_encontrado", Salvar(led, lote, rp).lotes)
             EXCEPT !.salvou = TRUE]
     ELSE AdicionarSalvar(led, meds, hj, rp, m, q, lote)

\* AdicionarEstoqueUseCase.execute
AdicionarEstoqueExecute(led, meds, hj, rp, m, q, numero_lote, data_fabricacao, data_validade, fornecedor) ==
  LET lote == [id |-> 0, numero_lote |-> numero_lote, medicamento_id |-> m,
               quantidade |-> q, data_fabricacao |-> data_fabricacao,
               data_validade |-> data_validade, fornecedor |-> fornecedor]
  IN IF q <= 0 THEN Falha("adicionar", m, q, led, "quantidade", led)
     ELSE IF m \notin DOMAIN meds
     THEN Falha("adicionar", m, q, led, "nao_encontrado", led)
     ELSE IF data_fabricacao = DataInvalida \/ data_validade = DataInvalida
     THEN Falha("adicionar", m, q, led, "formato_data", led)
     ELSE IF data_validade <= data_fabricacao
     THEN Falha("adicionar", m, q, led, "validade_fabricacao", led)
     ELSE IF data_validade <= hj
     THEN Falha("adicionar", m, q, led, "validade_futura", led)
     ELSE IF ValidarLote(lote, hj) # "ok"
     THEN Falha("adicionar", m, q, led, ValidarLote(lote, hj), led)
     ELSE AdicionarSalvar(led, meds, hj, rp, m, q, lote)

\* ------------------------------------------------------------- Lote methods

\* a retirar_quantidade that does not compare with what the batch holds
RetirarQuantidade_SemLimite(l, q) ==
  IF q <= 0 THEN [err |-> "retirar_nao_positivo", lote |-> l]
  ELSE [err |-> "ok", lote |-> [l EXCEPT !.quantidade = l.quantidade - q]]

\* Lote.retirar_quantidade
RetirarQuantidade(l, q) ==
  IF q <= 0 THEN [err |-> "retirar_nao_positivo", lote |-> l]
  ELSE IF q > l.quantidade THEN [err |-> "insuficiente_lote", lote |-> l]
  ELSE [err |-> "ok", lote |-> [l EXCEPT !.quantidade = l.quantidade - q]]

\* Lote.adicionar_quantidade
AdicionarQuantidade(l, q) ==
  IF q <= 0 THEN [err |-> "adicionar_nao_positivo", lote |-> l]
  ELSE [err |-> "ok", lote |-> [l EXCEPT !.quantidade = l.quantidade + q]]

\* buscar_por_id: None (id 0) when absent; PostgreSQL rebuilds the entity
BuscarPorId(led, id, hj, rp) ==
  IF id \notin 1 .. Len(led) THEN [err |-> "ok", achou |-> FALSE]
  ELSE IF rp = "postgres" /\ ModeloParaEntidade(led[id], hj) # "ok"
  THEN [err |-> ModeloParaEntidade(led[id], hj), achou |-> FALSE]
  ELSE [err |-> "ok", achou |-> TRUE]

\* ------------------------------------------------ EstoqueServiceMemory

Movimento(tipo, m, id, q) ==
  [tipo |-> tipo, medicamento_id |-> m, lote_id |-> id, quantidade |-> q]

\* lines 52-56: quantity in batches for which esta_vencido() is false
QuantidadeDisponivel(ls, hj) ==
  SomaQuantidade(SelectSeq(ls, LAMBDA l : ~EstaVencido(l, hj)))

\* verificar_disponibilidade
VerificarDisponibilidade(led, m, q, hj, rp) ==
  LET lidos == BuscarPorMedicamento(led, m, hj, rp)
  IN [err |-> lidos.err,
      tem |-> lidos.err = "ok" /\ QuantidadeDisponivel(lidos.lotes, hj) >= q]

FalhaServico(op, m, q, led, erro, ledDepois) == Falha(op, m, q, led, erro, ledDepois)

\* registrar_entrada
RegistrarEntradaExecute(led, movs, hj, rp, m, lote_id, q) ==
  LET achado == BuscarPorId(led, lote_id, hj, rp)
      ad == AdicionarQuantidade(led[lote_id], q)
      at == Atualizar(MutarEntidade(led, ad.lote, rp), ad.lote, rp, hj)
      falha(e, l2) == [res |-> [Falha("registrar_entrada", m, q, led, e, l2)
                                   EXCEPT !.lote_id = lote_id],
                       movs |-> movs]
  IN IF q <= 0 THEN falha("quantidade", led)
     ELSE IF achado.err # "ok" THEN falha(achado.err, led)
     ELSE IF ~achado.achou THEN falha("lote_nao_encontrado", led)
     ELSE IF led[lote_id].medicamento_id # m THEN falha("lote_de_outro", led)
     ELSE IF ad.err # "ok" THEN falha(ad.err, led)
     ELSE IF at.err # "ok" THEN falha(at.err, at.lotes)
     ELSE [res |-> [Falha("registrar_entrada", m, q, led, "ok", at.lotes)
                      EXCEPT !.lote_id = lote_id],
           movs |-> Append(movs, Movimento("ENTRADA", m, lote_id, q))]

\* lines 118-122: eligible batches, earliest manufacture first
LotesDisponiveisServico(ls, hj) ==
  OrdenarPor(SelectSeq(ls, LAMBDA l : ~EstaVencido(l, hj) /\ l.quantidade > 0),
             "data_fabricacao")

\* lines 127-146, one pass of the loop body over batch l
RetirarLote(st, l, m, rp, hj) ==
  IF st.err # "ok" \/ st.restante = 0 THEN st
  ELSE LET atual == [l EXCEPT !.quantidade = QuantidadeDe(st.lotes, l, rp)]
           quantidade_retirar == Min(st.restante, atual.quantidade)
           rt == RetirarQuantidade(atual, quantidade_retirar)
           at == Atualizar(MutarEntidade(st.lotes, rt.lote, rp), rt.lote, rp, hj)
       IN IF rt.err # "ok" THEN [st EXCEPT !.err = rt.err]
          ELSE IF at.err # "ok" THEN [st EXCEPT !.err = at.err, !.lotes = at.lotes]
          ELSE [err |-> "ok",
                lotes |-> at.lotes,
                restante |-> st.restante - quantidade_retirar,
                movs |-> Append(st.movs, Movimento("SAIDA", m, l.id, quantidade_retirar))]

RECURSIVE RetirarLotes(_, _, _, _, _)
RetirarLotes(st, disp, m, rp, hj) ==
  IF disp = <<>> THEN st
  ELSE RetirarLotes(RetirarLote(st, Head(disp), m, rp, hj), Tail(disp), m, rp, hj)

\* registrar_saida
RegistrarSaidaExecute(led, movs, hj, rp, m, q) ==
  LET vd == VerificarDisponibilidade(led, m, q, hj, rp)
      lidos == BuscarPorMedicamento(led, m, hj, rp)
      st == RetirarLotes([err |-> "ok", lotes |-> led, restante |-> q, movs |-> movs],
                         LotesDisponiveisServico(lidos.lotes, hj), m, rp, hj)
      falha(e) == [res |-> Falha("registrar_saida", m, q, led, e, led), movs |-> movs]
  IN IF q <= 0 THEN falha("quantidade")
     ELSE IF vd.err # "ok" THEN falha(vd.err)
     ELSE IF ~vd.tem THEN falha("insuficiente")
     ELSE IF lidos.err # "ok" THEN falha(lidos.err)
     ELSE [res |-> Falha("registrar_saida", m, q, led, st.err, st.lotes),
           movs |-> st.movs]

\* consultar_estoque_atual
ConsultarEstoqueAtual(led, m, hj, rp) ==
  LET lidos == BuscarPorMedicamento(led, m, hj, rp)
  IN [err |-> lidos.err,
      estoque_total |-> SomaQuantidade(lidos.lotes),
      estoque_disponivel |->
        SomaQuantidade(SelectSeq(lidos.lotes, LAMBDA l : ~EstaVencido(l, hj))),
      estoque_vencido |->
        SomaQuantidade(SelectSeq(lidos.lotes, LAMBDA l : EstaVencido(l, hj))),
      quantidade_lotes |-> Len(lidos.lotes)]

\* ------------------------------------------------------- EventDispatcher

\* the event classes the use cases dispatch (type(evento))
TiposEvento == {"EstoqueBaixoEvent", "ProdutoVencendoEvent"}

\* observer instances; `in` and remove() compare them by identity
Observadores == {"gerente", "compras", "promocoes"}

\* observer.__class__
ClasseDe(o) ==
  IF o = "promocoes" THEN "ProdutoVencendoObserver" ELSE "EstoqueBaixoObserver"

\* the attributes of an event, those its class does not have left at 0 / ""
Evento(tipo, m, atual, minimo, lote_id, numero_lote, validade, dias, q) ==
  [tipo |-> tipo, medicamento_id |-> m, estoque_atual |-> atual,
   estoque_minimo |-> minimo, lote_id |-> lote_id, numero_lote |-> numero_lote,
   data_validade |-> validade, dias_ate_vencer |-> dias, quantidade |-> q]

\* EstoqueBaixoEvent(medicamento_id, nome, estoque_atual, estoque_minimo)
EstoqueBaixoEvent(m, atual, minimo) ==
  Evento("EstoqueBaixoEvent", m, atual, minimo, 0, "", 0, 0, 0)

\* ProdutoVencendoEvent(medicamento_id, nome, lote_id, numero_lote,
\* data_validade, dias_ate_vencer, quantidade)
ProdutoVencendoEvent(l, hj) ==
  Evento("ProdutoVencendoEvent", l.medicamento_id, 0, 0, l.id, l.numero_lote,
         l.data_validade, l.data_validade - hj, l.quantidade)

\* does observer.notificar(evento) raise?  EstoqueBaixoObserver divides by
\* evento.estoque_minimo; either class reads attributes of its own event class
ObserverFalha(o, e) ==
  IF ClasseDe(o) = "EstoqueBaixoObserver"
  THEN e.tipo # "EstoqueBaixoEvent" \/ e.estoque_minimo = 0
  ELSE e.tipo # "ProdutoVencendoEvent"

\* EventDispatcher._inicializar / limpar: the empty dict
SemObservers == [k \in {} |-> <<>>]

\* o in lista
Contem(lista, o) == \E i \in 1 .. Len(lista) : lista[i] = o

\* lista.remove(o): the first occurrence goes
RECURSIVE RemoverDaLista(_, _)
RemoverDaLista(lista, o) ==
  IF lista = <<>> THEN <<>>
  ELSE IF Head(lista) = o THEN Tail(lista)
  ELSE <<Head(lista)>> \o RemoverDaLista(Tail(lista), o)

\* a registrar without the `observer not in` test of line 47
Registrar_SempreAnexa(obs, k, o) ==
  LET comChave == IF k \in DOMAIN obs THEN obs ELSE obs @@ (k :> <<>>)
  IN [comChave EXCEPT ![k] = Append(@, o)]

\* EventDispatcher.registrar
Registrar(obs, k, o) ==
  LET comChave == IF k \in DOMAIN obs THEN obs ELSE obs @@ (k :> <<>>)
  IN IF Contem(comChave[k], o) THEN comChave
     ELSE [comChave EXCEPT ![k] = Append(@, o)]

\* a remover that drops the whole list of the event class
Remover_EsvaziaLista(obs, k, o) ==
  IF k \in DOMAIN obs /\ Contem(obs[k], o)
  THEN [obs EXCEPT ![k] = <<>>]
  ELSE obs

\* EventDispatcher.remover
Remover(obs, k, o) ==
  IF k \in DOMAIN obs /\ Contem(obs[k], o)
  THEN [obs EXCEPT ![k] = RemoverDaLista(@, o)]
  ELSE obs

\* lines 85-90: the loop over the observers, each call inside try/except
RECURSIVE NotificarCada(_, _)
NotificarCada(lista, e) ==
  IF lista = <<>> THEN <<>>
  ELSE <<[observer |-> Head(lista), evento |-> e,
          falhou |-> ObserverFalha(Head(lista), e)]>>
       \o NotificarCada(Tail(lista), e)

\* the observers of every event class, one class after the other
ObserversDoTipo_Todos(obs, tipo) ==
  (IF "EstoqueBaixoEvent" \in DOMAIN obs THEN obs["EstoqueBaixoEvent"] ELSE <<>>)
  \o (IF "ProdutoVencendoEvent" \in DOMAIN obs
      THEN obs["ProdutoVencendoEvent"] ELSE <<>>)

\* line 75: self._observers.get(tipo_evento, [])
ObserversDoTipo(obs, tipo) == IF tipo \in DOMAIN obs THEN obs[tipo] ELSE <<>>

\* a notificar whose loop has no try/except: the calls stop at the first
\* observer that raises, and the exception reaches the caller
Notificar_SemTry(obs, e) ==
  LET todas == NotificarCada(ObserversDoTipo(obs, e.tipo), e)
      falhas == {i \in 1 .. Len(todas) : todas[i].falhou}
      n == IF falhas = {} THEN Len(todas)
           ELSE CHOOSE i \in falhas : \A j \in falhas : i <= j
  IN [chamadas |-> SubSeq(todas, 1, n), propagou |-> falhas # {},
      observers |-> obs]

\* EventDispatcher.notificar: the calls made, whether an exception reached the
\* caller, and the registry afterwards
Notificar(obs, e) ==
  LET lista == ObserversDoTipo(obs, e.tipo)
  IN [chamadas |-> NotificarCada(lista, e), propagou |-> FALSE, observers |-> obs]

\* EventDispatcher.limpar
Limpar(obs) == SemObservers

\* what an observer's notificar may do to the dispatcher that is calling it
Reacoes ==
  {[op |-> "remover", alvo |-> o] : o \in Observadores}
  \cup {[op |-> "registrar", alvo |-> o] : o \in Observadores}
  \cup {[op |-> "limpar", alvo |-> ""]}

\* the registry after observer `quem` reacted to an event of class k
Reagir(obs, k, reacao) ==
  IF reacao.op = "remover" THEN Remover(obs, k, reacao.alvo)
  ELSE IF reacao.op = "registrar" THEN Registrar(obs, k, reacao.alvo)
  ELSE Limpar(obs)

\* lines 85-90 when observer `quem` reacts while being notified.  The loop
\* iterates the list object that get() returned: lista[i] is read afresh at
\* each pass, remover and registrar change that same object as long as it is
\* still in the dict (ligada), and limpar empties the dict, not the list.
RECURSIVE NotificarPasso(_, _, _, _, _, _, _, _)
NotificarPasso(obs, lista, ligada, i, e, quem, reacao, chamadas) ==
  IF i > Len(lista) THEN [chamadas |-> chamadas, propagou |-> FALSE, observers |-> obs]
  ELSE LET o == lista[i]
           chamada == [observer |-> o, evento |-> e, falhou |-> ObserverFalha(o, e)]
           obs2 == IF o = quem THEN Reagir(obs, e.tipo, reacao) ELSE obs
           ligada2 == ligada /\ e.tipo \in DOMAIN obs2
           lista2 == IF ligada2 THEN obs2[e.tipo] ELSE lista
       IN NotificarPasso(obs2, lista2, ligada2, i + 1, e, quem, reacao,
                         Append(chamadas, chamada))

\* EventDispatcher.notificar with a re-entrant observer
NotificarReentrante(obs, e, quem, reacao) ==
  LET lista == ObserversDoTipo(obs, e.tipo)
  IN IF lista = <<>> THEN [chamadas |-> <<>>, propagou |-> FALSE, observers |-> obs]
     ELSE NotificarPasso(obs, lista, TRUE, 1, e, quem, reacao, <<>>)

\* configurar_observers: one observer of each class, each for its event class
ConfigurarObserversExecute(obs) ==
  Registrar(Registrar(obs, "EstoqueBaixoEvent", "gerente"),
            "ProdutoVencendoEvent", "promocoes")

\* what a query, scan or dispatch leaves behind
SemConsulta ==
  [op |-> "nenhuma", err |-> "ok", tipo |-> "", observer |-> "",
   medicamento_id |-> 0, quantidade |-> 0,
   dias |-> 0, eventos |-> <<>>, chamadas |-> <<>>, propagou |-> FALSE, alertas |-> <<>>,
   lotes |-> <<>>, estoque_total |-> 0, estoque_disponivel |-> 0,
   estoque_vencido |-> 0, quantidade_lotes |-> 0, tem |-> FALSE,
   eventos_disparados |-> 0, antes |-> SemObservers,
   incluir_zerados |-> FALSE,
   resumo |-> [total_produtos |-> 0, total_unidades |-> 0,
               produtos_abaixo_minimo |-> 0, produtos_zerados |-> 0,
               produtos_ok |-> 0]]

\* --------------------------------------------------------------- scans

\* Lote.dias_para_vencer
DiasParaVencer(l, hj) == l.data_validade - hj

\* Lote.vence_em_breve
VenceEmBreve(l, dias, hj) ==
  IF EstaVencido(l, hj) THEN FALSE ELSE DiasParaVencer(l, hj) <= dias

\* listar_vencendo_em: both repositories select on the two dates; the
\* PostgreSQL one then rebuilds an entity from every selected row
ListarVencendoEm(led, dias, hj, rp) ==
  LET data_limite == hj + dias
      sel == SelectSeq(led, LAMBDA l : l.data_validade <= data_limite
                                        /\ l.data_validade >= hj)
  IN IF rp = "postgres" /\ PrimeiroErro(sel, hj) # "ok"
     THEN [err |-> PrimeiroErro(sel, hj), lotes |-> <<>>]
     ELSE [err |-> "ok", lotes |-> sel]

\* MedicamentoRepository.listar_todos: the ids, in the order they were stored
ListarTodos(meds) == [i \in 1 .. Cardinality(DOMAIN meds) |-> i]

\* the dict appended to alertas (lines 91-100, 114-123)
Alerta(m, atual, minimo, status, prioridade) ==
  [medicamento_id |-> m, estoque_atual |-> atual, estoque_minimo |-> minimo,
   diferenca |-> minimo - atual, status |-> status, prioridade |-> prioridade]

\* key=lambda x: (x["prioridade"], -x["diferenca"]), compared as tuples
ChaveMenor(a, b) ==
  \/ a.prioridade < b.prioridade
  \/ a.prioridade = b.prioridade /\ 0 - a.diferenca < 0 - b.diferenca

RECURSIVE InserirAlerta(_, _)
InserirAlerta(s, x) ==
  IF s = <<>> THEN <<x>>
  ELSE IF ChaveMenor(x, Head(s)) THEN <<x>> \o s
  ELSE <<Head(s)>> \o InserirAlerta(Tail(s), x)

\* alertas.sort(key=...): stable
RECURSIVE OrdenarAlertas(_)
OrdenarAlertas(s) ==
  IF s = <<>> THEN <<>>
  ELSE InserirAlerta(OrdenarAlertas(SubSeq(s, 1, Len(s) - 1)), s[Len(s)])

\* VerificarEstoqueBaixoUseCase.execute lines 68-123, the loop body for
\* medication m
VerificarMedicamento(st, m, led, meds, obs, hj, rp) ==
  IF st.err # "ok" THEN st
  ELSE LET lidos == BuscarPorMedicamento(led, m, hj, rp)
           estoque_disponivel == EstoqueNaoVencido(lidos.lotes, hj)
           minimo == meds[m].estoque_minimo
           evento == EstoqueBaixoEvent(m, estoque_disponivel, minimo)
           n == Notificar(obs, evento)
           \* an exception leaving event_dispatcher.notificar ends execute()
           dispara(status, prioridade) ==
             [err |-> IF n.propagou THEN "observer" ELSE "ok",
              eventos |-> Append(st.eventos, evento),
              chamadas |-> st.chamadas \o n.chamadas,
              alertas |-> IF n.propagou THEN st.alertas
                          ELSE Append(st.alertas,
                 Alerta(m, estoque_disponivel, minimo, status, prioridade))]
       IN IF lidos.err # "ok" THEN [st EXCEPT !.err = lidos.err]
          ELSE IF estoque_disponivel = 0 THEN dispara("CRITICO", 1)
          ELSE IF estoque_disponivel < minimo THEN dispara("ATENCAO", 2)
          ELSE st

RECURSIVE VerificarMedicamentos(_, _, _, _, _, _, _)
VerificarMedicamentos(st, ids, led, meds, obs, hj, rp) ==
  IF ids = <<>> THEN st
  ELSE VerificarMedicamentos(VerificarMedicamento(st, Head(ids), led, meds, obs, hj, rp),
                             Tail(ids), led, meds, obs, hj, rp)

\* VerificarEstoqueBaixoUseCase.execute
VerificarEstoqueBaixoExecute(led, meds, obs, hj, rp) ==
  LET st == VerificarMedicamentos(
              [err |-> "ok", eventos |-> <<>>, chamadas |-> <<>>, alertas |-> <<>>],
              ListarTodos(meds), led, meds, obs, hj, rp)
  IN IF st.err # "ok" THEN [st EXCEPT !.alertas = <<>>]
     ELSE [st EXCEPT !.alertas = OrdenarAlertas(st.alertas)]

\* EstoqueServiceMemory.listar_estoque_baixo lines 193-205, the loop body
EstoqueBaixoDe(st, m, led, meds, hj, rp) ==
  IF st.err # "ok" THEN st
  ELSE LET estoque == ConsultarEstoqueAtual(led, m, hj, rp)
           minimo == meds[m].estoque_minimo
       IN IF estoque.err # "ok" THEN [err |-> estoque.err, alertas |-> <<>>]
          ELSE IF estoque.estoque_disponivel < minimo
          THEN [st EXCEPT !.alertas = Append(@,
                  Alerta(m, estoque.estoque_disponivel, minimo, "", 0))]
          ELSE st

RECURSIVE ListarEstoqueBaixoDe(_, _, _, _, _, _)
ListarEstoqueBaixoDe(st, ids, led, meds, hj, rp) ==
  IF ids = <<>> THEN st
  ELSE ListarEstoqueBaixoDe(EstoqueBaixoDe(st, Head(ids), led, meds, hj, rp),
                            Tail(ids), led, meds, hj, rp)

\* EstoqueServiceMemory.listar_estoque_baixo
ListarEstoqueBaixoExecute(led, meds, hj, rp) ==
  ListarEstoqueBaixoDe([err |-> "ok", alertas |-> <<>>], ListarTodos(meds),
                       led, meds, hj, rp)

\* LoteRepository.listar_todos: PostgreSQL rebuilds an entity from every row
ListarTodosLotes(led, hj, rp) ==
  IF rp = "postgres" /\ PrimeiroErro(led, hj) # "ok"
  THEN [err |-> PrimeiroErro(led, hj), lotes |-> <<>>]
  ELSE [err |-> "ok", lotes |-> led]

\* the dict appended to lotes_vencendo (lines 80-94)
ProdutoVencendo(l, dias_ate_vencer) ==
  [medicamento_id |-> l.medicamento_id, lote_id |-> l.id,
   numero_lote |-> l.numero_lote, quantidade |-> l.quantidade,
   data_validade |-> l.data_validade, dias_ate_vencer |-> dias_ate_vencer,
   urgencia |-> IF dias_ate_vencer <= 7 THEN "CRITICO" ELSE "ATENCAO"]

\* MonitorarProdutosVencendoUseCase.execute lines 49-94, the loop body for
\* batch l
MonitorarLote(st, l, dias, meds, obs, hj) ==
  LET data_limite == hj + dias
      dias_ate_vencer == l.data_validade - hj
      evento == ProdutoVencendoEvent(l, hj)
      n == Notificar(obs, evento)
  IN IF st.err # "ok" THEN st
     ELSE IF l.data_validade <= hj THEN st
     ELSE IF ~(l.data_validade <= data_limite) THEN st
     ELSE IF l.medicamento_id \notin DOMAIN meds THEN st
     \* an exception leaving event_dispatcher.notificar ends execute()
     ELSE [err |-> IF n.propagou THEN "observer" ELSE "ok",
           eventos |-> Append(st.eventos, evento),
           chamadas |-> st.chamadas \o n.chamadas,
           lotes_vencendo |-> IF n.propagou THEN st.lotes_vencendo
                              ELSE Append(st.lotes_vencendo,
                                          ProdutoVencendo(l, dias_ate_vencer))]

RECURSIVE MonitorarLotes(_, _, _, _, _, _)
MonitorarLotes(st, ls, dias, meds, obs, hj) ==
  IF ls = <<>> THEN st
  ELSE MonitorarLotes(MonitorarLote(st, Head(ls), dias, meds, obs, hj),
                      Tail(ls), dias, meds, obs, hj)

\* MonitorarProdutosVencendoUseCase.execute
MonitorarProdutosVencendoExecute(led, meds, obs, dias, hj, rp) ==
  LET todos == ListarTodosLotes(led, hj, rp)
      st == MonitorarLotes([err |-> todos.err, eventos |-> <<>>,
                            chamadas |-> <<>>, lotes_vencendo |-> <<>>],
                           todos.lotes, dias, meds, obs, hj)
      ordenados == IF st.err # "ok" THEN <<>>
                   ELSE OrdenarPor(st.lotes_vencendo, "dias_ate_vencer")
  IN [err |-> st.err, eventos |-> st.eventos, chamadas |-> st.chamadas,
      lotes |-> ordenados, total_lotes_vencendo |-> Len(ordenados),
      eventos_disparados |-> Len(ordenados)]

\* RelatorioEstoqueUseCase.execute lines 53-105, the loop body for
\* medication m (prices and the amounts derived from them are left out)
RelatorioItem(st, m, led, meds, incluir_zerados, hj, rp) ==
  IF st.err # "ok" THEN st
  ELSE LET lidos == BuscarPorMedicamento(led, m, hj, rp)
           estoque_disponivel == EstoqueNaoVencido(lidos.lotes, hj)
           minimo == meds[m].estoque_minimo
           status == IF estoque_disponivel = 0 THEN "ZERADO"
                     ELSE IF estoque_disponivel < minimo THEN "ABAIXO_MINIMO"
                     ELSE "OK"
           prioridade == IF status = "ZERADO" THEN 1
                         ELSE IF status = "ABAIXO_MINIMO" THEN 2 ELSE 3
           item == [medicamento_id |-> m, estoque_atual |-> estoque_disponivel,
                    estoque_minimo |-> minimo, status |-> status,
                    prioridade |-> prioridade, total_lotes |-> Len(lidos.lotes)]
       IN IF lidos.err # "ok" THEN [st EXCEPT !.err = lidos.err]
          ELSE IF ~incluir_zerados /\ estoque_disponivel = 0
          THEN [st EXCEPT !.produtos_zerados = @ + 1]
          ELSE [st EXCEPT
                  !.produtos_zerados = IF status = "ZERADO" THEN @ + 1 ELSE @,
                  !.produtos_abaixo_minimo =
                     IF status = "ABAIXO_MINIMO" THEN @ + 1 ELSE @,
                  !.itens = Append(@, item),
                  !.total_produtos = @ + 1,
                  !.total_unidades = @ + estoque_disponivel]

RECURSIVE RelatorioItens(_, _, _, _, _, _, _)
RelatorioItens(st, ids, led, meds, incluir_zerados, hj, rp) ==
  IF ids = <<>> THEN st
  ELSE RelatorioItens(RelatorioItem(st, Head(ids), led, meds, incluir_zerados, hj, rp),
                      Tail(ids), led, meds, incluir_zerados, hj, rp)

\* RelatorioEstoqueUseCase._gerar_alertas: the kinds of the alerts
GerarAlertas(produtos_abaixo_minimo, produtos_zerados) ==
  LET alertas == (IF produtos_zerados > 0 THEN <<"CRITICO">> ELSE <<>>)
                 \o (IF produtos_abaixo_minimo > 0 THEN <<"ATENCAO">> ELSE <<>>)
  IN IF alertas = <<>> THEN <<"OK">> ELSE alertas

\* RelatorioEstoqueUseCase.execute; the items come out by priority, and
\* within a priority in the order of the catalog
RelatorioEstoqueExecute(led, meds, incluir_zerados, hj, rp) ==
  LET st == RelatorioItens(
              [err |-> "ok", itens |-> <<>>, total_produtos |-> 0,
               total_unidades |-> 0, produtos_abaixo_minimo |-> 0,
               produtos_zerados |-> 0],
              ListarTodos(meds), led, meds, incluir_zerados, hj, rp)
      vazio == [total_produtos |-> 0, total_unidades |-> 0,
                produtos_abaixo_minimo |-> 0, produtos_zerados |-> 0,
                produtos_ok |-> 0]
  IN IF st.err # "ok"
     THEN [err |-> st.err, itens |-> <<>>, alertas |-> <<>>, resumo |-> vazio]
     ELSE [err |-> "ok",
           itens |-> OrdenarPor(st.itens, "prioridade"),
           alertas |-> GerarAlertas(st.produtos_abaixo_minimo, st.produtos_zerados),
           resumo |-> [total_produtos |-> st.total_produtos,
                       total_unidades |-> st.total_unidades,
                       produtos_abaixo_minimo |-> st.produtos_abaixo_minimo,
                       produtos_zerados |-> st.produtos_zerados,
                       produtos_ok |-> st.total_produtos
                                       - st.produtos_abaixo_minimo
                                       - st.produtos_zerados]]

\* ------------------------------------------------------------ the system

\* FastAPI serves each request of a plain `def` endpoint on a worker thread,
\* each with its own session (get_session) and its own use case object
Threads == {"t1", "t2"}

\* a thread with no request: the locals of execute() do not exist
Ocioso ==
  [pc |-> "ocioso", r |-> SemResultado, disp |-> <<>>, restante |-> 0,
   lote |-> Entrega("", 0, 0, ""), sobrepostos |-> {}]

Init ==
  /\ repo \in Repositorios
  /\ hoje = 1
  /\ medicamentos = [m \in {1, 2} |-> [estoque_minimo |-> IF m = 1 THEN 2 ELSE 0]]
  /\ lotes = <<>>
  /\ res = SemResultado
  /\ proc = [p \in Threads |-> Ocioso]
  /\ observers = SemObservers
  /\ consulta = SemConsulta

\* one call of AdicionarEstoqueUseCase.execute with a delivery note of E
AdicionarEstoqueDe(E) ==
  \E m \in IdsMedicamento, q \in 0 .. MaxQtd, e \in E :
    /\ Len(lotes) < MaxLotes
    /\ res' = [AdicionarEstoqueExecute(lotes, medicamentos, hoje, repo, m, q,
                 e.numero_lote, e.data_fabricacao, e.data_validade, e.fornecedor)
                EXCEPT !.entrega = e]
    /\ lotes' = res'.depois
    /\ UNCHANGED <<repo, hoje, medicamentos, proc, observers>>
    /\ consulta' = SemConsulta

AdicionarEstoque == AdicionarEstoqueDe(Entregas)

\* stock received with papers in order
ReceberEstoque == AdicionarEstoqueDe(EntregasEmOrdem)

\* one call of RemoverEstoqueUseCase.execute
RemoverEstoque ==
  \E m \in IdsMedicamento, q \in 0 .. MaxPedido :
    /\ res' = RemoverEstoqueExecute(lotes, medicamentos, hoje, repo, m, q)
    /\ lotes' = res'.depois
    /\ UNCHANGED <<repo, hoje, medicamentos, proc, observers>>
    /\ consulta' = SemConsulta

\* midnight: date.today() moves on; no call has been made yet today
PassarDia ==
  /\ hoje < MaxDia
  /\ hoje' = hoje + 1
  /\ res' = SemResultado
  /\ UNCHANGED <<repo, medicamentos, lotes, proc, observers>>
  /\ consulta' = SemConsulta

\* one call of LoteRepository.buscar_por_medicamento
ListarLotes ==
  \E m \in IdsMedicamento :
    LET lidos == BuscarPorMedicamento(lotes, m, hoje, repo)
    IN /\ res' = [Falha("listar", m, 0, lotes, lidos.err, lotes)
                    EXCEPT !.lotes_lidos = lidos.lotes]
       /\ UNCHANGED <<repo, hoje, medicamentos, lotes, proc, observers>>
       /\ consulta' = SemConsulta

\* EstoqueServiceMemory(medicamento_repo, lote_repo).registrar_entrada(...):
\* a service built over the repositories and one call; res.movimentacoes is
\* that service's _movimentacoes afterwards
RegistrarEntrada ==
  \E m \in IdsMedicamento, id \in 1 .. Len(lotes) + 1, q \in 0 .. MaxQtd :
    LET r == RegistrarEntradaExecute(lotes, <<>>, hoje, repo, m, id, q)
    IN /\ id \in 1 .. Len(lotes) => lotes[id].quantidade + q <= MaxQtd
       /\ res' = [r.res EXCEPT !.movimentacoes = r.movs]
       /\ lotes' = r.res.depois
       /\ UNCHANGED <<repo, hoje, medicamentos, proc, observers>>
       /\ consulta' = SemConsulta

\* EstoqueServiceMemory(medicamento_repo, lote_repo).registrar_saida(...)
RegistrarSaida ==
  \E m \in IdsMedicamento, q \in 0 .. MaxPedido :
    LET r == RegistrarSaidaExecute(lotes, <<>>, hoje, repo, m, q)
    IN /\ res' = [r.res EXCEPT !.movimentacoes = r.movs]
       /\ lotes' = r.res.depois
       /\ UNCHANGED <<repo, hoje, medicamentos, proc, observers>>
       /\ consulta' = SemConsulta

\* lote = lote_repo.buscar_por_id(id); lote.retirar_quantidade(q)
LoteRetirarQuantidade ==
  \E id \in 1 .. Len(lotes), q \in 0 .. MaxPedido :
    LET achado == BuscarPorId(lotes, id, hoje, repo)
        rt == RetirarQuantidade(lotes[id], q)
    IN /\ res' = [Falha("lote_retirar", 0, 0, lotes,
                        IF achado.err # "ok" THEN achado.err ELSE rt.err,
                        IF achado.err # "ok" THEN lotes
                        ELSE MutarEntidade(lotes, rt.lote, repo))
                    EXCEPT !.lote_id = id]
       /\ lotes' = res'.depois
       /\ UNCHANGED <<repo, hoje, medicamentos, proc, observers>>
       /\ consulta' = SemConsulta

\* lote = lote_repo.buscar_por_id(id); lote.adicionar_quantidade(q)
LoteAdicionarQuantidade ==
  \E id \in 1 .. Len(lotes), q \in 0 .. MaxQtd :
    LET achado == BuscarPorId(lotes, id, hoje, repo)
        ad == AdicionarQuantidade(lotes[id], q)
    IN /\ lotes[id].quantidade + q <= MaxQtd
       /\ res' = [Falha("lote_adicionar", 0, 0, lotes,
                        IF achado.err # "ok" THEN achado.err ELSE ad.err,
                        IF achado.err # "ok" THEN lotes
                        ELSE MutarEntidade(lotes, ad.lote, repo))
                    EXCEPT !.lote_id = id]
       /\ lotes' = res'.depois
       /\ UNCHANGED <<repo, hoje, medicamentos, proc, observers>>
       /\ consulta' = SemConsulta

\* EstoqueServiceMemory(...).consultar_estoque_atual(m)
ConsultarEstoque ==
  \E m \in IdsMedicamento :
    LET c == ConsultarEstoqueAtual(lotes, m, hoje, repo)
    IN /\ consulta' = [SemConsulta EXCEPT
            !.op = "consultar_estoque_atual", !.medicamento_id = m, !.err = c.err,
            !.estoque_total = c.estoque_total,
            !.estoque_disponivel = c.estoque_disponivel,
            !.estoque_vencido = c.estoque_vencido,
            !.quantidade_lotes = c.quantidade_lotes]
       /\ res' = SemResultado
       /\ UNCHANGED <<repo, hoje, medicamentos, lotes, proc, observers>>

\* EstoqueServiceMemory(...).verificar_disponibilidade(m, q)
VerificarDisponibilidadeDe ==
  \E m \in IdsMedicamento, q \in 0 .. MaxPedido :
    LET v == VerificarDisponibilidade(lotes, m, q, hoje, repo)
    IN /\ consulta' = [SemConsulta EXCEPT
            !.op = "verificar_disponibilidade", !.medicamento_id = m,
            !.quantidade = q, !.err = v.err, !.tem = v.tem]
       /\ res' = SemResultado
       /\ UNCHANGED <<repo, hoje, medicamentos, lotes, proc, observers>>

\* one call of VerificarEstoqueBaixoUseCase.execute
VerificarEstoqueBaixo ==
  LET r == VerificarEstoqueBaixoExecute(lotes, medicamentos, observers, hoje, repo)
  IN /\ consulta' = [SemConsulta EXCEPT
          !.op = "verificar_estoque_baixo", !.err = r.err, !.eventos = r.eventos,
          !.chamadas = r.chamadas, !.alertas = r.alertas, !.antes = observers]
     /\ res' = SemResultado
     /\ UNCHANGED <<repo, hoje, medicamentos, lotes, proc, observers>>

\* EstoqueServiceMemory(...).listar_estoque_baixo()
ListarEstoqueBaixo ==
  LET r == ListarEstoqueBaixoExecute(lotes, medicamentos, hoje, repo)
  IN /\ consulta' = [SemConsulta EXCEPT
          !.op = "listar_estoque_baixo", !.err = r.err, !.alertas = r.alertas]
     /\ res' = SemResultado
     /\ UNCHANGED <<repo, hoje, medicamentos, lotes, proc, observers>>

\* one call of LoteRepository.listar_vencendo_em(dias)
ListarVencendo ==
  \E dias \in 0 .. MaxHorizonte :
    LET r == ListarVencendoEm(lotes, dias, hoje, repo)
    IN /\ consulta' = [SemConsulta EXCEPT
            !.op = "listar_vencendo_em", !.dias = dias, !.err = r.err,
            !.lotes = r.lotes]
       /\ res' = SemResultado
       /\ UNCHANGED <<repo, hoje, medicamentos, lotes, proc, observers>>

\* lote = lote_repo.buscar_por_id(id); lote.vence_em_breve(dias)
LoteVenceEmBreve ==
  \E id \in 1 .. Len(lotes), dias \in 0 .. MaxHorizonte :
    LET achado == BuscarPorId(lotes, id, hoje, repo)
    IN /\ consulta' = [SemConsulta EXCEPT
            !.op = "vence_em_breve", !.dias = dias, !.err = achado.err,
            !.lotes = <<lotes[id]>>,
            !.tem = achado.err = "ok" /\ VenceEmBreve(lotes[id], dias, hoje)]
       /\ res' = SemResultado
       /\ UNCHANGED <<repo, hoje, medicamentos, lotes, proc, observers>>

\* one call of MonitorarProdutosVencendoUseCase.execute(dias)
MonitorarProdutosVencendo ==
  \E dias \in 0 .. MaxHorizonte :
    LET r == MonitorarProdutosVencendoExecute(lotes, medicamentos, observers,
                                              dias, hoje, repo)
    IN /\ consulta' = [SemConsulta EXCEPT
            !.op = "monitorar_produtos_vencendo", !.dias = dias, !.err = r.err,
            !.eventos = r.eventos, !.chamadas = r.chamadas, !.alertas = r.lotes,
            !.eventos_disparados = r.eventos_disparados, !.antes = observers]
       /\ res' = SemResultado
       /\ UNCHANGED <<repo, hoje, medicamentos, lotes, proc, observers>>

\* configurar_observers(), at application start
ConfigurarObservers ==
  /\ observers' = ConfigurarObserversExecute(observers)
  /\ observers' # observers
  /\ consulta' = SemConsulta
  /\ UNCHANGED <<repo, hoje, medicamentos, lotes, res, proc>>

\* the events handed to the dispatcher
EventosNotificaveis ==
  {EstoqueBaixoEvent(m, atual, minimo) :
     m \in IdsMedicamento, atual \in {0}, minimo \in 0 .. 1}
  \cup {Evento("ProdutoVencendoEvent", m, 0, 0, 1, "L-1", MaxDia, 1, 1) :
          m \in IdsMedicamento}

\* event_dispatcher.registrar(tipo_evento, observer)
RegistrarObserver ==
  \E k \in TiposEvento, o \in Observadores :
    /\ observers' = Registrar(observers, k, o)
    /\ consulta' = [SemConsulta EXCEPT !.op = "registrar", !.tipo = k,
                                       !.observer = o, !.antes = observers]
    /\ res' = SemResultado
    /\ UNCHANGED <<repo, hoje, medicamentos, lotes, proc>>

\* event_dispatcher.remover(tipo_evento, observer)
RemoverObserver ==
  \E k \in TiposEvento, o \in Observadores :
    /\ observers' = Remover(observers, k, o)
    /\ consulta' = [SemConsulta EXCEPT !.op = "remover", !.tipo = k,
                                       !.observer = o, !.antes = observers]
    /\ res' = SemResultado
    /\ UNCHANGED <<repo, hoje, medicamentos, lotes, proc>>

\* event_dispatcher.limpar() / limpar_observers()
LimparObservers ==
  /\ observers' = Limpar(observers)
  /\ consulta' = [SemConsulta EXCEPT !.op = "limpar", !.antes = observers]
  /\ res' = SemResultado
  /\ UNCHANGED <<repo, hoje, medicamentos, lotes, proc>>

\* event_dispatcher.notificar(evento)
NotificarEvento ==
  \E e \in EventosNotificaveis :
    LET r == Notificar(observers, e)
    IN /\ observers' = r.observers
       /\ consulta' = [SemConsulta EXCEPT !.op = "notificar", !.tipo = e.tipo,
                         !.eventos = <<e>>, !.chamadas = r.chamadas,
                         !.propagou = r.propagou, !.antes = observers]
       /\ res' = SemResultado
       /\ UNCHANGED <<repo, hoje, medicamentos, lotes, proc>>

\* event_dispatcher.notificar(evento) when one of the observers calls the
\* dispatcher from its notificar
NotificarComReentrada ==
  \E e \in {ev \in EventosNotificaveis : ev.medicamento_id = 1},
     quem \in Observadores, reacao \in Reacoes :
    LET r == NotificarReentrante(observers, e, quem, reacao)
    IN /\ observers' = r.observers
       /\ consulta' = [SemConsulta EXCEPT !.op = "notificar_reentrante",
                         !.tipo = e.tipo, !.observer = quem,
                         !.eventos = <<e>>, !.chamadas = r.chamadas,
                         !.propagou = r.propagou, !.antes = observers]
       /\ res' = SemResultado
       /\ UNCHANGED <<repo, hoje, medicamentos, lotes, proc>>

\* one call of RelatorioEstoqueUseCase.execute(incluir_zerados)
RelatorioEstoque ==
  \E incluir_zerados \in BOOLEAN :
    LET r == RelatorioEstoqueExecute(lotes, medicamentos, incluir_zerados,
                                     hoje, repo)
    IN /\ consulta' = [SemConsulta EXCEPT
            !.op = "relatorio_estoque", !.err = r.err,
            !.incluir_zerados = incluir_zerados, !.lotes = r.itens,
            !.alertas = r.alertas, !.resumo = r.resumo]
       /\ res' = SemResultado
       /\ UNCHANGED <<repo, hoje, medicamentos, lotes, proc, observers>>

\* stock coming in and going out, days passing, and the stock report
NextRelatorio ==
  \/ ReceberEstoque
  \/ RemoverEstoque
  \/ PassarDia
  \/ RelatorioEstoque

SpecRelatorio == Init /\ [][NextRelatorio]_vars

\* the dispatcher with observers that call it back
NextReentrada ==
  \/ RegistrarObserver
  \/ RemoverObserver
  \/ NotificarComReentrada

SpecReentrada == Init /\ [][NextReentrada]_vars

\* the dispatcher on its own: registrations, removals, clear and dispatch
NextEventos ==
  \/ RegistrarObserver
  \/ RemoverObserver
  \/ LimparObservers
  \/ NotificarEvento

SpecEventos == Init /\ [][NextEventos]_vars

\* the use cases, the repository listing and the clock
Next ==
  \/ AdicionarEstoque
  \/ RemoverEstoque
  \/ ListarLotes
  \/ PassarDia

Spec == Init /\ [][Next]_vars

\* the same, with EstoqueServiceMemory and the Lote methods
NextServico ==
  \/ ReceberEstoque
  \/ RemoverEstoque
  \/ RegistrarEntrada
  \/ RegistrarSaida
  \/ LoteRetirarQuantidade
  \/ LoteAdicionarQuantidade
  \/ PassarDia

SpecServico == Init /\ [][NextServico]_vars

\* the ledger under the queries and the scans
NextMonitor ==
  \/ ReceberEstoque
  \/ RemoverEstoque
  \/ PassarDia
  \/ ConsultarEstoque
  \/ VerificarDisponibilidadeDe
  \/ VerificarEstoqueBaixo
  \/ ListarEstoqueBaixo
  \/ ListarVencendo
  \/ LoteVenceEmBreve
  \/ MonitorarProdutosVencendo
  \/ ConfigurarObservers

SpecMonitor == Init /\ [][NextMonitor]_vars

\* ------------------------------------------- the use cases, step by step
\* One action per ledger access of execute(); what a thread does between two
\* accesses touches only its own locals.

\* has read the ledger and has writes of the allocation loop ahead
EmAlocacao(t) == proc[t].pc = "alocar"

\* RemoverEstoqueUseCase.execute lines 70-77, up to the first ledger read
CIniciarRemover(t) ==
  \E m \in IdsMedicamento, q \in 0 .. MaxPedido :
    /\ proc[t].pc = "ocioso"
    /\ proc' = [proc EXCEPT ![t] =
         IF q <= 0
         THEN [Ocioso EXCEPT !.pc = "fim", !.r = Falha("remover", m, q, <<>>, "quantidade", <<>>)]
         ELSE IF m \notin DOMAIN medicamentos
         THEN [Ocioso EXCEPT !.pc = "fim", !.r = Falha("remover", m, q, <<>>, "nao_encontrado", <<>>)]
         ELSE [Ocioso EXCEPT !.pc = "ler", !.r = Falha("remover", m, q, <<>>, "ok", <<>>)]]
    /\ UNCHANGED <<repo, hoje, medicamentos, lotes, res, observers>>
    /\ consulta' = SemConsulta

\* lines 79-99: read the batches, filter, sort, add up, precheck
CLerLotes(t) ==
  LET m == proc[t].r.medicamento_id
      q == proc[t].r.quantidade
      lidos == BuscarPorMedicamento(lotes, m, hoje, repo)
      disp == LotesDisponiveis(lidos.lotes, hoje)
      outros == {u \in Threads \ {t} : EmAlocacao(u) /\ proc[u].r.medicamento_id = m}
  IN /\ proc[t].pc = "ler"
     /\ proc' = [u \in Threads |->
          IF u = t
          THEN IF lidos.err # "ok"
               THEN [proc[t] EXCEPT !.pc = "fim", !.r.err = lidos.err]
               ELSE IF SomaQuantidade(disp) < q
               THEN [proc[t] EXCEPT !.pc = "fim", !.r.err = "insuficiente",
                                    !.r.disponivel = SomaQuantidade(disp)]
               ELSE [proc[t] EXCEPT !.pc = "alocar", !.disp = disp, !.restante = q,
                                    !.r.disponivel = SomaQuantidade(disp),
                                    !.sobrepostos = outros]
          ELSE IF u \in outros /\ lidos.err = "ok" /\ SomaQuantidade(disp) >= q
               THEN [proc[u] EXCEPT !.sobrepostos = @ \cup {t}]
               ELSE proc[u]]
     /\ UNCHANGED <<repo, hoje, medicamentos, lotes, res, observers>>
     /\ consulta' = SemConsulta

\* lines 105-124: one pass of the loop, with its atualizar
CAlocar(t) ==
  LET st == AlocarLote([err |-> "ok", lotes |-> lotes, restante |-> proc[t].restante,
                        afetados |-> proc[t].r.lotes_afetados],
                       Head(proc[t].disp), repo, hoje)
  IN /\ proc[t].pc = "alocar"
     /\ lotes' = st.lotes
     /\ proc' = [proc EXCEPT ![t] =
          IF st.err # "ok"
          THEN [@ EXCEPT !.pc = "fim", !.r.err = st.err, !.disp = <<>>, !.restante = 0]
          ELSE [@ EXCEPT !.pc = IF st.restante = 0 \/ Tail(proc[t].disp) = <<>>
                                THEN "reler" ELSE "alocar",
                         !.disp = IF st.restante = 0 THEN <<>> ELSE Tail(proc[t].disp),
                         !.restante = st.restante,
                         !.r.lotes_afetados = st.afetados]]
     /\ UNCHANGED <<repo, hoje, medicamentos, res, observers>>
     /\ consulta' = SemConsulta

\* AdicionarEstoqueUseCase.execute lines 73-104, up to salvar
CIniciarAdicionar(t) ==
  \E m \in IdsMedicamento, q \in 0 .. MaxQtd, e \in EntregasEmOrdem :
    LET previo == AdicionarEstoqueExecute(<<>>, medicamentos, hoje, "memory", m, q,
                    e.numero_lote, e.data_fabricacao, e.data_validade, e.fornecedor)
    IN /\ proc[t].pc = "ocioso"
       /\ Len(lotes) + Cardinality({u \in Threads : proc[u].pc = "salvar"}) < MaxLotes
       /\ proc' = [proc EXCEPT ![t] =
            IF previo.err # "ok"
            THEN [Ocioso EXCEPT !.pc = "fim",
                                !.r = Falha("adicionar", m, q, <<>>, previo.err, <<>>)]
            ELSE [Ocioso EXCEPT !.pc = "salvar",
                                !.r = Falha("adicionar", m, q, <<>>, "ok", <<>>),
                                !.lote = e]]
       /\ UNCHANGED <<repo, hoje, medicamentos, lotes, res, observers>>
       /\ consulta' = SemConsulta

\* line 107: lote_repo.salvar
CSalvar(t) ==
  LET e == proc[t].lote
      sv == Salvar(lotes, [id |-> 0, numero_lote |-> e.numero_lote,
                           medicamento_id |-> proc[t].r.medicamento_id,
                           quantidade |-> proc[t].r.quantidade,
                           data_fabricacao |-> e.data_fabricacao,
                           data_validade |-> e.data_validade,
                           fornecedor |-> e.fornecedor], repo)
  IN /\ proc[t].pc = "salvar"
     /\ lotes' = sv.lotes
     /\ proc' = [proc EXCEPT ![t] =
          IF sv.err # "ok"
          THEN [@ EXCEPT !.pc = "fim", !.r.err = sv.err, !.r.salvou = TRUE]
          ELSE [@ EXCEPT !.pc = "reler", !.r.salvou = TRUE, !.r.lote_id = sv.id]]
     /\ UNCHANGED <<repo, hoje, medicamentos, res, observers>>
     /\ consulta' = SemConsulta

\* the closing read and the report: RemoverEstoqueUseCase lines 126-156,
\* AdicionarEstoqueUseCase lines 109-134
CReler(t) ==
  LET m == proc[t].r.medicamento_id
      todos == BuscarPorMedicamento(lotes, m, hoje, repo)
      total == IF proc[t].r.op = "remover"
               THEN EstoqueNaoVencido(todos.lotes, hoje)
               ELSE SomaQuantidade(todos.lotes)
  IN /\ proc[t].pc = "reler"
     /\ proc' = [proc EXCEPT ![t] =
          IF todos.err # "ok"
          THEN [@ EXCEPT !.pc = "fim", !.r.err = todos.err]
          ELSE [@ EXCEPT !.pc = "fim", !.r.estoque_atual = total,
                         !.r.status =
                            IF proc[t].r.op = "remover"
                            THEN StatusRemocao(total, medicamentos[m].estoque_minimo)
                            ELSE StatusAdicao(total, medicamentos[m].estoque_minimo)]]
     /\ UNCHANGED <<repo, hoje, medicamentos, lotes, res, observers>>
     /\ consulta' = SemConsulta

\* the response is sent; the thread takes the next request
CRetornar(t) ==
  /\ proc[t].pc = "fim"
  /\ proc' = [proc EXCEPT ![t] = Ocioso]
  /\ UNCHANGED <<repo, hoje, medicamentos, lotes, res, observers>>
  /\ consulta' = SemConsulta

NextConc ==
  \E t \in Threads :
    \/ CIniciarRemover(t)
    \/ CLerLotes(t)
    \/ CAlocar(t)
    \/ CIniciarAdicionar(t)
    \/ CSalvar(t)
    \/ CReler(t)
    \/ CRetornar(t)

SpecConc == Init /\ [][NextConc]_vars

\* ================================================================ claims
\* Vocabulary of the claims, stated over the ledger and not through the
\* operators above.

IdsDe(led, m) == {i \in 1 .. Len(led) : led[i].medicamento_id = m}

\* eligible: of medication m, not expired, quantity > 0
Elegiveis(led, m, hj) ==
  {i \in IdsDe(led, m) : led[i].quantidade > 0 /\ led[i].data_validade > hj}

RECURSIVE SomaDosLotes(_, _)
SomaDosLotes(led, S) ==
  IF S = {} THEN 0
  ELSE LET i == CHOOSE x \in S : TRUE
       IN led[i].quantidade + SomaDosLotes(led, S \ {i})

\* available(m): quantity in the batches of m with expiry > today
Disponivel(led, m, hj) ==
  SomaDosLotes(led, {i \in IdsDe(led, m) : led[i].data_validade > hj})

RECURSIVE SomaRemovida(_)
SomaRemovida(afetados) ==
  IF afetados = <<>> THEN 0
  ELSE Head(afetados).quantidade_removida + SomaRemovida(Tail(afetados))

Quantidades(led) == [i \in 1 .. Len(led) |-> led[i].quantidade]

RemocaoBemSucedida == res.op = "remover" /\ res.err = "ok"

\* C1: a RemoveStock that returns successfully took exactly the requested
\* quantity, summed over lotes_afetados, and leaves no batch quantity
\* negative.
C1_SomaRemovidaExata ==
  RemocaoBemSucedida =>
    /\ res.quantidade > 0
    /\ res.medicamento_id \in DOMAIN medicamentos
    /\ res.quantidade <= SomaDosLotes(res.antes,
                            Elegiveis(res.antes, res.medicamento_id, hoje))
    /\ SomaRemovida(res.lotes_afetados) = res.quantidade
    /\ \A i \in 1 .. Len(lotes) : lotes[i].quantidade >= 0

\* a removal that needed two batches
C1_Witness ==
  /\ RemocaoBemSucedida
  /\ Len(res.lotes_afetados) = 2
  /\ res.quantidade = MaxPedido

\* C2 as claimed: asking for more than the eligible batches hold fails with
\* the insufficient-stock error, which reports available and requested, and
\* no batch quantity changes.
C2_EstoqueInsuficiente ==
  ( /\ res.op = "remover"
    /\ res.quantidade > 0
    /\ res.medicamento_id \in DOMAIN medicamentos
    /\ res.quantidade > SomaDosLotes(res.antes,
                           Elegiveis(res.antes, res.medicamento_id, hoje)) )
  => /\ res.err = "insuficiente"
     /\ res.disponivel = SomaDosLotes(res.antes,
                           Elegiveis(res.antes, res.medicamento_id, hoje))
     /\ Quantidades(lotes) = Quantidades(res.antes)

Max(a, b) == IF a > b THEN a ELSE b

RemoveuComSucesso(t) ==
  proc[t].pc = "fim" /\ proc[t].r.op = "remover" /\ proc[t].r.err = "ok"

\* C3 as claimed: of two RemoveStock calls on one medication that overlap
\* (one read the ledger while the other was in its allocation loop) and
\* together ask for more than the medication had, at most one succeeds.
C3_SemVendaExcessiva ==
  \A t \in Threads, u \in Threads :
     ( /\ t # u
       /\ RemoveuComSucesso(t) /\ RemoveuComSucesso(u)
       /\ proc[t].r.medicamento_id = proc[u].r.medicamento_id
       /\ u \in proc[t].sobrepostos )
     => proc[t].r.quantidade + proc[u].r.quantidade
          <= Max(proc[t].r.disponivel, proc[u].r.disponivel)

\* C4: in a successful RemoveStock a batch gives units only if every other
\* eligible batch of the medication with a strictly earlier expiry ends the
\* call at quantity 0, and lotes_afetados lists the batches by ascending
\* expiry.
C4_OrdemDeValidade ==
  RemocaoBemSucedida =>
    LET af == res.lotes_afetados
        el == Elegiveis(res.antes, res.medicamento_id, hoje)
    IN /\ \A k \in 1 .. Len(af) :
            af[k].quantidade_removida > 0 =>
              \A j \in el \ {af[k].lote_id} :
                 res.antes[j].data_validade < res.antes[af[k].lote_id].data_validade
                   => lotes[j].quantidade = 0
       /\ \A k \in 1 .. Len(af), n \in 1 .. Len(af) :
            k < n => res.antes[af[k].lote_id].data_validade
                       <= res.antes[af[n].lote_id].data_validade

\* the batch stored second expires first and is emptied first
C4_Witness ==
  /\ RemocaoBemSucedida
  /\ Len(res.lotes_afetados) = 2
  /\ res.lotes_afetados[1].lote_id = 2
  /\ res.lotes_afetados[2].lote_id = 1
  /\ res.antes[2].data_validade < res.antes[1].data_validade

\* C5 as claimed: a RemoveStock that ends with an error of any kind leaves
\* every batch quantity as it was before the call.
C5_TudoOuNada ==
  (res.op = "remover" /\ res.err # "ok") =>
     Quantidades(lotes) = Quantidades(res.antes)

AdicaoBemSucedida == res.op = "adicionar" /\ res.err = "ok"

\* C7: a successful AddStock appends exactly one batch, of the received
\* quantity and for that medication, leaves every batch that existed as it
\* was (also one with the same lot number), and raises available(m) by the
\* received quantity.
C7_UmLoteNovo ==
  AdicaoBemSucedida =>
    /\ Len(lotes) = Len(res.antes) + 1
    /\ SubSeq(lotes, 1, Len(res.antes)) = res.antes
    /\ lotes[Len(lotes)].quantidade = res.quantidade
    /\ lotes[Len(lotes)].medicamento_id = res.medicamento_id
    /\ lotes[Len(lotes)].id = res.lote_id
    /\ Disponivel(lotes, res.medicamento_id, hoje)
         = Disponivel(res.antes, res.medicamento_id, hoje) + res.quantidade

\* a second batch under a lot number the ledger already holds
C7_Witness ==
  /\ AdicaoBemSucedida
  /\ Len(lotes) = 2
  /\ lotes[1].numero_lote = lotes[2].numero_lote
  /\ lotes[1].medicamento_id = lotes[2].medicamento_id

\* the inputs C8 names
EntradaRecusavel ==
  \/ res.quantidade <= 0
  \/ res.medicamento_id \notin DOMAIN medicamentos
  \/ res.entrega.data_fabricacao = DataInvalida
  \/ res.entrega.data_validade = DataInvalida
  \/ res.entrega.data_validade <= res.entrega.data_fabricacao
  \/ res.entrega.data_validade <= hoje

\* C8: AddStock with quantity <= 0, an unknown medication, a malformed date,
\* expiry <= manufacture or expiry <= today ends with an error, without a
\* call of the repository's salvar, and the ledger is unchanged.
C8_RecusaSemSalvar ==
  (res.op = "adicionar" /\ EntradaRecusavel) =>
     /\ res.err # "ok"
     /\ ~res.salvou
     /\ lotes = res.antes

\* a refused delivery while the ledger already holds a batch
C8_Witness ==
  /\ res.op = "adicionar"
  /\ res.quantidade > 0
  /\ res.medicamento_id \in DOMAIN medicamentos
  /\ res.entrega.data_validade <= hoje
  /\ res.entrega.data_validade > res.entrega.data_fabricacao
  /\ res.entrega.data_fabricacao # DataInvalida
  /\ Len(lotes) = 1

\* a ledger access of thread t: every step of execute() but its start and
\* its return
AcessaLedger(t) ==
  /\ proc[t].pc \in {"ler", "alocar", "salvar", "reler"}
  /\ proc'[t] # proc[t]

\* C9 as claimed: while one RemoveStock is between its first ledger read and
\* its last ledger write, no other AddStock or RemoveStock on the same
\* medication reads or writes the ledger.
C9_UmaAlocacaoPorVez ==
  [][ \A t \in Threads, u \in Threads :
        ( /\ t # u
          /\ EmAlocacao(t)
          /\ proc[u].r.medicamento_id = proc[t].r.medicamento_id )
        => ~AcessaLedger(u) ]_vars

\* C10 as claimed: no call takes a batch out of the ledger, and every batch
\* of the medication, also one at quantity 0 or past its expiry, is returned
\* by the per-medication listing.
C10_ListagemCompleta ==
  /\ res.op # "nenhuma" =>
        /\ Len(lotes) >= Len(res.antes)
        /\ \A i \in 1 .. Len(res.antes) : lotes[i].id = res.antes[i].id
  /\ res.op = "listar" =>
        /\ res.err = "ok"
        /\ {res.lotes_lidos[k].id : k \in 1 .. Len(res.lotes_lidos)}
             = IdsDe(lotes, res.medicamento_id)


\* quantity in all the batches of medication m
TotalDe(led, m) == SomaDosLotes(led, IdsDe(led, m))

\* C11 as claimed: the service reports, for every medication id, available =
\* the quantity in its batches with expiry > today and expired = the quantity
\* in its other batches, zero for an unknown id and never an error; and
\* verificar_disponibilidade(m, q) answers available(m) >= q.
C11_DisponivelEVencido ==
  /\ consulta.op = "consultar_estoque_atual" =>
       /\ consulta.err = "ok"
       /\ consulta.estoque_disponivel = Disponivel(lotes, consulta.medicamento_id, hoje)
       /\ consulta.estoque_vencido =
            TotalDe(lotes, consulta.medicamento_id)
              - Disponivel(lotes, consulta.medicamento_id, hoje)
       /\ consulta.estoque_total = TotalDe(lotes, consulta.medicamento_id)
  /\ consulta.op = "verificar_disponibilidade" =>
       /\ consulta.err = "ok"
       /\ consulta.tem = (Disponivel(lotes, consulta.medicamento_id, hoje)
                            >= consulta.quantidade)


\* C12 as claimed: a successful AddStock reports estoque_atual = available(m)
\* after the addition, counting only the batches that have not expired, and
\* status OK exactly when that availability reaches the medication's minimum,
\* ATENCAO otherwise.
C12_EstoqueAtualAposAdicao ==
  AdicaoBemSucedida =>
    /\ res.estoque_atual = Disponivel(lotes, res.medicamento_id, hoje)
    /\ res.status \in {"OK", "ATENCAO"}
    /\ res.status = "OK" <=>
         Disponivel(lotes, res.medicamento_id, hoje)
           >= medicamentos[res.medicamento_id].estoque_minimo


\* C13: a successful RemoveStock reports the medication's availability before
\* the call minus the requested quantity, with status CRITICO when that is 0,
\* ATENCAO when it is above 0 and below the medication's minimum, OK otherwise.
C13_EstoqueAtualAposRemocao ==
  RemocaoBemSucedida =>
    LET a == Disponivel(res.antes, res.medicamento_id, hoje) - res.quantidade
        minimo == medicamentos[res.medicamento_id].estoque_minimo
    IN /\ res.estoque_atual = a
       /\ res.estoque_atual = Disponivel(lotes, res.medicamento_id, hoje)
       /\ res.status = IF a = 0 THEN "CRITICO"
                       ELSE IF a < minimo THEN "ATENCAO"
                       ELSE "OK"

\* a removal that leaves the medication below its minimum while an expired
\* batch of it still holds units
C13_Witness ==
  /\ RemocaoBemSucedida
  /\ res.status = "ATENCAO"
  /\ \E i \in IdsDe(lotes, res.medicamento_id) :
        lotes[i].data_validade <= hoje /\ lotes[i].quantidade > 0


\* the medications an alert list names
Alertados(alertas) == {alertas[i].medicamento_id : i \in 1 .. Len(alertas)}

\* C14 as claimed: the low-stock scan of the use case and the one of the
\* service report a medication exactly when its availability is below its
\* minimum; a medication whose availability equals its minimum is not reported.
C14_BaixoSseAbaixoDoMinimo ==
  consulta.op \in {"verificar_estoque_baixo", "listar_estoque_baixo"} =>
    /\ consulta.err = "ok"
    /\ \A m \in DOMAIN medicamentos :
         m \in Alertados(consulta.alertas)
           <=> Disponivel(lotes, m, hoje) < medicamentos[m].estoque_minimo


\* CRITICO at availability 0, ATENCAO above 0 and below the minimum, else OK
Classificacao(led, meds, m, hj) ==
  IF Disponivel(led, m, hj) = 0 THEN "CRITICO"
  ELSE IF Disponivel(led, m, hj) < meds[m].estoque_minimo THEN "ATENCAO"
  ELSE "OK"

\* the places of the events about medication m
EventosDe(eventos, m) == {i \in 1 .. Len(eventos) : eventos[i].medicamento_id = m}

\* C15 as claimed: one run of the low-stock scan dispatches exactly one
\* EstoqueBaixoEvent for each medication classified ATENCAO or CRITICO and none
\* for a medication classified OK, each carrying the medication's id,
\* availability and minimum, and returns an alert list with exactly one entry
\* per dispatched event.
C15_UmEventoPorMedicamentoBaixo ==
  consulta.op = "verificar_estoque_baixo" =>
    /\ consulta.err = "ok"
    /\ \A m \in DOMAIN medicamentos :
         Cardinality(EventosDe(consulta.eventos, m)) =
           IF Classificacao(lotes, medicamentos, m, hoje) = "OK" THEN 0 ELSE 1
    /\ \A i \in 1 .. Len(consulta.eventos) :
         LET ev == consulta.eventos[i]
         IN /\ ev.tipo = "EstoqueBaixoEvent"
            /\ ev.medicamento_id \in DOMAIN medicamentos
            /\ ev.estoque_atual = Disponivel(lotes, ev.medicamento_id, hoje)
            /\ ev.estoque_minimo = medicamentos[ev.medicamento_id].estoque_minimo
    /\ Len(consulta.alertas) = Len(consulta.eventos)
    /\ \A i \in 1 .. Len(consulta.eventos) :
         Cardinality(EventosDe(consulta.alertas, consulta.eventos[i].medicamento_id)) = 1


\* expiringWithin(d): the batches with 0 <= expiry - today <= d
VencendoEm(led, d, hj) ==
  {i \in 1 .. Len(led) : 0 <= led[i].data_validade - hj
                          /\ led[i].data_validade - hj <= d}

\* C16 as claimed: for every d >= 0, listar_vencendo_em(d) returns exactly the
\* batches with 0 <= days left <= d, and vence_em_breve(d) is true of exactly
\* those batches.
C16_VencendoEmExato ==
  /\ consulta.op = "listar_vencendo_em" =>
       /\ consulta.err = "ok"
       /\ {consulta.lotes[k].id : k \in 1 .. Len(consulta.lotes)}
            = VencendoEm(lotes, consulta.dias, hoje)
       /\ Len(consulta.lotes) = Cardinality(VencendoEm(lotes, consulta.dias, hoje))
  /\ (consulta.op = "vence_em_breve" /\ consulta.err = "ok") =>
       consulta.tem = (consulta.lotes[1].id \in VencendoEm(lotes, consulta.dias, hoje))


\* the places of the events about batch i
EventosDoLote(eventos, i) == {k \in 1 .. Len(eventos) : eventos[k].lote_id = i}

\* C17 as claimed: an expiring-soon scan with horizon h dispatches exactly one
\* ProdutoVencendoEvent for every batch with 0 <= days left <= h and none for
\* any other batch, each carrying the batch's id, lot number, expiry, days
\* left and quantity, and reports eventos_disparados = the number dispatched.
C17_UmEventoPorLoteVencendo ==
  consulta.op = "monitorar_produtos_vencendo" =>
    /\ consulta.err = "ok"
    /\ \A i \in 1 .. Len(lotes) :
         Cardinality(EventosDoLote(consulta.eventos, i)) =
           IF i \in VencendoEm(lotes, consulta.dias, hoje) THEN 1 ELSE 0
    /\ \A k \in 1 .. Len(consulta.eventos) :
         LET ev == consulta.eventos[k]
         IN /\ ev.tipo = "ProdutoVencendoEvent"
            /\ ev.lote_id \in 1 .. Len(lotes)
            /\ ev.numero_lote = lotes[ev.lote_id].numero_lote
            /\ ev.data_validade = lotes[ev.lote_id].data_validade
            /\ ev.dias_ate_vencer = lotes[ev.lote_id].data_validade - hoje
            /\ ev.quantidade = lotes[ev.lote_id].quantidade
    /\ consulta.eventos_disparados = Len(consulta.eventos)


\* the places of observer o in a list of observers
PosicoesDe(lista, o) == {i \in 1 .. Len(lista) : lista[i] = o}

\* the calls of one dispatch that went to observer o
ChamadasA(chamadas, o) == {i \in 1 .. Len(chamadas) : chamadas[i].observer = o}

\* C18: a dispatch invokes every observer registered for the event's class
\* exactly once, in registration order, with the event; an observer that
\* raises does not stop the observers after it, and nothing reaches the caller.
C18_TodosNaOrdemFalhaIsolada ==
  consulta.op = "notificar" =>
    LET e == consulta.eventos[1]
        registrados == ObserversDoTipo(consulta.antes, e.tipo)
    IN /\ Len(consulta.chamadas) = Len(registrados)
       /\ \A i \in 1 .. Len(registrados) :
            /\ consulta.chamadas[i].observer = registrados[i]
            /\ consulta.chamadas[i].evento = e
            /\ consulta.chamadas[i].falhou = ObserverFalha(registrados[i], e)
       /\ \A o \in Observadores :
            Cardinality(ChamadasA(consulta.chamadas, o)) =
              Cardinality(PosicoesDe(registrados, o))
       /\ \A o \in Observadores : Cardinality(PosicoesDe(registrados, o)) <= 1
       /\ ~consulta.propagou

\* a dispatch whose first observer raised and whose second one ran all the same
C18_Witness ==
  /\ consulta.op = "notificar"
  /\ Len(consulta.chamadas) >= 2
  /\ consulta.chamadas[1].falhou
  /\ ~consulta.chamadas[2].falhou
  /\ ~consulta.propagou

\* C19: a dispatch invokes only observers registered for exactly the event's
\* class; with none registered for that class, whatever is registered for the
\* other classes, it returns normally, invokes nobody and leaves the registry
\* as it was.
C19_SoDoTipoDoEvento ==
  consulta.op = "notificar" =>
    LET e == consulta.eventos[1]
        semObservers == \/ e.tipo \notin DOMAIN consulta.antes
                        \/ consulta.antes[e.tipo] = <<>>
    IN /\ \A i \in 1 .. Len(consulta.chamadas) :
            /\ e.tipo \in DOMAIN consulta.antes
            /\ PosicoesDe(consulta.antes[e.tipo],
                          consulta.chamadas[i].observer) # {}
       /\ semObservers =>
            /\ consulta.chamadas = <<>>
            /\ ~consulta.propagou
            /\ observers = consulta.antes

\* a dispatch of a class nobody observes while another class has an observer
C19_Witness ==
  /\ consulta.op = "notificar"
  /\ consulta.tipo \notin DOMAIN consulta.antes
  /\ \E k \in DOMAIN consulta.antes : consulta.antes[k] # <<>>
  /\ consulta.chamadas = <<>>
  /\ observers = consulta.antes

\* C20: registering a pair already registered changes nothing, so the pair
\* keeps the place of its first registration; registering a new pair appends
\* it and moves no other entry; no list ever holds an observer twice, and a
\* dispatch invokes each registered observer of the class once.
C20_RegistrarIdempotente ==
  /\ \A k \in DOMAIN observers : \A o \in Observadores :
       Cardinality(PosicoesDe(observers[k], o)) <= 1
  /\ consulta.op = "registrar" =>
       LET k == consulta.tipo
           o == consulta.observer
           lista == ObserversDoTipo(consulta.antes, k)
       IN /\ k \in DOMAIN observers
          /\ Cardinality(PosicoesDe(observers[k], o)) = 1
          /\ PosicoesDe(lista, o) # {} => observers[k] = lista
          /\ PosicoesDe(lista, o) = {} => observers[k] = Append(lista, o)
          /\ \A j \in DOMAIN consulta.antes :
               j # k => j \in DOMAIN observers /\ observers[j] = consulta.antes[j]
          /\ DOMAIN observers = DOMAIN consulta.antes \cup {k}
  /\ consulta.op = "notificar" =>
       \A o \in Observadores :
         PosicoesDe(ObserversDoTipo(consulta.antes, consulta.tipo), o) # {}
           => Cardinality(ChamadasA(consulta.chamadas, o)) = 1

\* a pair registered again after another observer was registered behind it:
\* it is still first, and still there once
C20_Witness ==
  /\ consulta.op = "registrar"
  /\ consulta.tipo \in DOMAIN consulta.antes
  /\ Len(consulta.antes[consulta.tipo]) >= 2
  /\ consulta.antes[consulta.tipo][1] = consulta.observer
  /\ observers = consulta.antes


\* no event class has an observer
RegistroVazio(obs) == \A k \in TiposEvento : ObserversDoTipo(obs, k) = <<>>

\* C21: remover takes the pair's entry out and leaves every other entry where
\* it was, and changes nothing when the pair is absent; registrar followed by
\* remover of a pair that was absent gives back the observer lists; limpar
\* empties the registry, and from an empty registry no dispatch invokes an
\* observer and nothing but registrar makes it non-empty.
C21_RemoverELimpar ==
  /\ consulta.op = "remover" =>
       LET k == consulta.tipo
           o == consulta.observer
           lista == ObserversDoTipo(consulta.antes, k)
       IN /\ DOMAIN observers = DOMAIN consulta.antes
          /\ ObserversDoTipo(observers, k) = SelectSeq(lista, LAMBDA x : x # o)
          /\ PosicoesDe(lista, o) # {} =>
               Len(ObserversDoTipo(observers, k)) = Len(lista) - 1
          /\ PosicoesDe(lista, o) = {} => observers = consulta.antes
          /\ \A j \in DOMAIN consulta.antes :
               j # k => observers[j] = consulta.antes[j]
  /\ \A k \in TiposEvento : \A o \in Observadores :
       PosicoesDe(ObserversDoTipo(observers, k), o) = {} =>
         \A j \in TiposEvento :
           ObserversDoTipo(Remover(Registrar(observers, k, o), k, o), j)
             = ObserversDoTipo(observers, j)
  /\ consulta.op = "limpar" => observers = SemObservers
  /\ (consulta.op = "notificar" /\ RegistroVazio(consulta.antes)) =>
       consulta.chamadas = <<>>
  /\ (consulta.op \in {"notificar", "remover", "limpar"}
        /\ RegistroVazio(consulta.antes)) => RegistroVazio(observers)

\* a remover that took one of two observers of an event class out
C21_Witness ==
  /\ consulta.op = "remover"
  /\ Len(ObserversDoTipo(consulta.antes, consulta.tipo)) >= 2
  /\ PosicoesDe(consulta.antes[consulta.tipo], consulta.observer) # {}
  /\ Len(observers[consulta.tipo]) = Len(consulta.antes[consulta.tipo]) - 1


\* the operations that are scans
Varreduras == {"verificar_estoque_baixo", "monitorar_produtos_vencendo"}

\* what the scan whose result is in consulta returns when nobody observes
VarreduraSemObservers ==
  IF consulta.op = "verificar_estoque_baixo"
  THEN LET r == VerificarEstoqueBaixoExecute(lotes, medicamentos, SemObservers,
                                             hoje, repo)
       IN [err |-> r.err, alertas |-> r.alertas, eventos |-> r.eventos]
  ELSE LET r == MonitorarProdutosVencendoExecute(lotes, medicamentos,
                                SemObservers, consulta.dias, hoje, repo)
       IN [err |-> r.err, alertas |-> r.lotes, eventos |-> r.eventos]

\* an observer failure never reaches a scan: whatever the observers do, the
\* scan returns what it returns when nobody observes
VarreduraImuneAObservers ==
  consulta.op \in Varreduras =>
    /\ consulta.err # "observer"
    /\ ~consulta.propagou
    /\ consulta.err = VarreduraSemObservers.err
    /\ consulta.alertas = VarreduraSemObservers.alertas
    /\ consulta.eventos = VarreduraSemObservers.eventos

\* C22 as claimed: a low-stock scan or an expiring-soon scan completes without
\* error and returns the same result whether or not the registered observers
\* raise; an observer failure is never surfaced to the scan or its caller.
C22_VarreduraCompletaSemErro ==
  consulta.op \in Varreduras =>
    /\ consulta.err = "ok"
    /\ VarreduraImuneAObservers

\* a scan during which an observer raised, and which returned all the same
C22_Witness ==
  /\ consulta.op \in Varreduras
  /\ consulta.err = "ok"
  /\ \E i \in 1 .. Len(consulta.chamadas) : consulta.chamadas[i].falhou


\* C24 as claimed: lot numbers are unique in the ledger; no two stored batches
\* carry the same lot number, whatever AddStock calls were made.
C24_NumeroLoteUnico ==
  \A i, j \in 1 .. Len(lotes) :
    i # j => lotes[i].numero_lote # lotes[j].numero_lote


\* the other implementation of LoteRepositoryPort
OutroRepositorio == IF repo = "memory" THEN "postgres" ELSE "memory"

\* what the call whose outcome is in res returns over repository rp
ChamadaSobre(rp) ==
  IF res.op = "adicionar"
  THEN AdicionarEstoqueExecute(res.antes, medicamentos, hoje, rp,
         res.medicamento_id, res.quantidade, res.entrega.numero_lote,
         res.entrega.data_fabricacao, res.entrega.data_validade,
         res.entrega.fornecedor)
  ELSE RemoverEstoqueExecute(res.antes, medicamentos, hoje, rp,
         res.medicamento_id, res.quantidade)

\* C23 as claimed: the two batch repositories are interchangeable; every
\* AddStock, RemoveStock, stock query and low-stock scan returns over the
\* other repository the result or error it returned over this one and leaves
\* the same batch ids and quantities in the ledger.
C23_RepositoriosIntercambiaveis ==
  /\ res.op \in {"adicionar", "remover"} =>
       LET outro == ChamadaSobre(OutroRepositorio)
       IN /\ outro.err = res.err
          /\ Quantidades(outro.depois) = Quantidades(res.depois)
          /\ outro.estoque_atual = res.estoque_atual
          /\ outro.status = res.status
          /\ outro.lotes_afetados = res.lotes_afetados
  /\ consulta.op = "consultar_estoque_atual" =>
       LET outro == ConsultarEstoqueAtual(lotes, consulta.medicamento_id, hoje,
                                          OutroRepositorio)
       IN /\ outro.err = consulta.err
          /\ outro.estoque_disponivel = consulta.estoque_disponivel
          /\ outro.estoque_total = consulta.estoque_total
  /\ consulta.op = "verificar_estoque_baixo" =>
       LET outro == VerificarEstoqueBaixoExecute(lotes, medicamentos, observers,
                                                 hoje, OutroRepositorio)
       IN outro.err = consulta.err /\ outro.alertas = consulta.alertas


\* the withdrawal whose outcome is in res, made by the other path instead
OutroCaminho ==
  IF res.op = "remover"
  THEN RegistrarSaidaExecute(res.antes, <<>>, hoje, repo,
                             res.medicamento_id, res.quantidade).res
  ELSE RemoverEstoqueExecute(res.antes, medicamentos, hoje, repo,
                             res.medicamento_id, res.quantidade)

\* C25 as claimed: EstoqueServiceMemory.registrar_saida and
\* RemoverEstoqueUseCase.execute agree on every ledger, medication and
\* quantity: both fail or both succeed, and when they succeed they leave the
\* same quantity in every batch.
C25_CaminhosDeSaidaConcordam ==
  res.op \in {"remover", "registrar_saida"} =>
    /\ (OutroCaminho.err = "ok") <=> (res.err = "ok")
    /\ res.err = "ok" => Quantidades(OutroCaminho.depois) = Quantidades(res.depois)


\* C26 as claimed: no decrement is lost.  When two RemoveStock calls on one
\* medication overlapped and both returned successfully, the medication's
\* batches hold what they held before the first of the two read them, less
\* the two requested quantities.
C26_NenhumDecrementoPerdido ==
  \A t \in Threads, u \in Threads :
     ( /\ t # u
       /\ RemoveuComSucesso(t) /\ RemoveuComSucesso(u)
       /\ proc[t].r.medicamento_id = proc[u].r.medicamento_id
       /\ u \in proc[t].sobrepostos )
     => Max(proc[t].r.disponivel, proc[u].r.disponivel)
          - Disponivel(lotes, proc[t].r.medicamento_id, hoje)
        = proc[t].r.quantidade + proc[u].r.quantidade


\* C27 as claimed: a dispatch is unaffected by registry changes made during
\* it; whatever an observer does to the registry while being notified, every
\* observer registered for the event's class when the dispatch began is
\* invoked exactly once by that dispatch.
C27_DespachoImuneAMudancas ==
  consulta.op = "notificar_reentrante" =>
    \A o \in Observadores :
      PosicoesDe(ObserversDoTipo(consulta.antes, consulta.tipo), o) # {}
        => Cardinality(ChamadasA(consulta.chamadas, o)) = 1


\* the quantities of the movements of kind tipo recorded for batch id
RECURSIVE SomaMovimentos(_, _, _)
SomaMovimentos(movs, tipo, id) ==
  IF movs = <<>> THEN 0
  ELSE (IF Head(movs).tipo = tipo /\ Head(movs).lote_id = id
        THEN Head(movs).quantidade ELSE 0)
       + SomaMovimentos(Tail(movs), tipo, id)

\* the quantities of all the movements of kind tipo
RECURSIVE SomaDoTipo(_, _)
SomaDoTipo(movs, tipo) ==
  IF movs = <<>> THEN 0
  ELSE (IF Head(movs).tipo = tipo THEN Head(movs).quantidade ELSE 0)
       + SomaDoTipo(Tail(movs), tipo)

ChamadaDoServico == res.op \in {"registrar_entrada", "registrar_saida"}

\* C28 as claimed: the movement log accounts for every quantity change.  A
\* registrar_entrada or registrar_saida call changes each batch by the ENTRADA
\* movements less the SAIDA movements it records for that batch (so, call
\* after call, a batch holds what it was stored with plus its ENTRADAs minus
\* its SAIDAs); the SAIDAs of a successful registrar_saida add up to the
\* requested quantity; a failing call records nothing and changes nothing.
C28_LogContaCadaMudanca ==
  ChamadaDoServico =>
    /\ Len(lotes) = Len(res.antes)
    /\ \A i \in 1 .. Len(lotes) :
         lotes[i].quantidade =
           res.antes[i].quantidade
             + SomaMovimentos(res.movimentacoes, "ENTRADA", i)
             - SomaMovimentos(res.movimentacoes, "SAIDA", i)
    /\ \A k \in 1 .. Len(res.movimentacoes) :
         res.movimentacoes[k].lote_id \in 1 .. Len(lotes)
    /\ (res.op = "registrar_saida" /\ res.err = "ok") =>
         /\ SomaDoTipo(res.movimentacoes, "SAIDA") = res.quantidade
         /\ SomaDoTipo(res.movimentacoes, "ENTRADA") = 0
    /\ res.err # "ok" =>
         /\ res.movimentacoes = <<>>
         /\ Quantidades(lotes) = Quantidades(res.antes)


\* the listed items whose status is OK
ItensOk(itens) == {i \in 1 .. Len(itens) : itens[i].status = "OK"}

\* C29 as claimed: in the stock report, for both values of incluir_zerados,
\* resumo.produtos_ok is never negative and is the number of listed items
\* with status OK, and resumo.total_produtos is the number of listed items.
C29_ProdutosOkExato ==
  consulta.op = "relatorio_estoque" =>
    /\ consulta.err = "ok"
    /\ consulta.resumo.produtos_ok >= 0
    /\ consulta.resumo.produtos_ok = Cardinality(ItensOk(consulta.lotes))
    /\ consulta.resumo.total_produtos = Len(consulta.lotes)


\* batch a with the quantity of batch b
ComQuantidadeDe(a, b) == [a EXCEPT !.quantidade = b.quantidade]

\* C30: a RemoveStock call on medication M, successful or not, changes
\* nothing but the quantity of eligible batches of M: the catalog and the
\* number of batches stay, every batch keeps its id, lot number, dates,
\* supplier and medication, and the batches of other medications, the expired
\* batches of M and the batches of M at quantity 0 stay as they were.
C30_SoMudaLotesElegiveis ==
  [][ res'.op = "remover" =>
        /\ medicamentos' = medicamentos
        /\ Len(lotes') = Len(lotes)
        /\ \A i \in 1 .. Len(lotes) :
             /\ lotes'[i] = ComQuantidadeDe(lotes[i], lotes'[i])
             /\ i \notin Elegiveis(lotes, res'.medicamento_id, hoje)
                  => lotes'[i] = lotes[i] ]_vars

\* a successful removal next to a batch of another medication, or next to a
\* batch of the same medication that is expired or empty
C30_Witness ==
  /\ RemocaoBemSucedida
  /\ Len(lotes) = 2
  /\ Quantidades(lotes) # Quantidades(res.antes)
  /\ \E i \in 1 .. Len(lotes) :
       /\ i \notin Elegiveis(res.antes, res.medicamento_id, hoje)
       /\ res.antes[i].quantidade > 0
       /\ lotes[i] = res.antes[i]

====
